---------------------------- MODULE Spec2Model ----------------------------
(***************************************************************************)
(* Artie CAN library (framework/ardk/libraries/artie-can): the RT and RPC  *)
(* engines, the integrity codec they use, and a point-to-point frame       *)
(* transport joining two contexts.                                         *)
(*                                                                         *)
(* Two contexts, A and B, each run one engine call at a time.  A call is   *)
(* cut at the places where the code blocks in the transport's receive;     *)
(* everything between two such places is one step.  Each call records the  *)
(* transport calls it makes (log), so that "which frames were handed to    *)
(* the transport, in which order, with which result" is a state predicate. *)
(***************************************************************************)
EXTENDS Integers, Sequences, FiniteSets, TLC

VARIABLES
    node_address,   \* ctx->node_address of each context
    link,           \* link[n]: frames in flight towards n, oldest first (over the
                    \* in-memory queue: the one g_mock_queue_ctx of the process)
    op,             \* op[n]: the engine call context n is in, or was last in
    up,             \* the transport is connected (is_connected of mock_tcp_context_t)
    seed,           \* seed[n]: static seed of rpcacp_generate_random in n's process
    events          \* engine calls started and transport events so far

vars == <<node_address, link, up, op, seed, events>>

(***************************************************************************)
(* Bounds of the model.                                                    *)
(***************************************************************************)
MaxEvents == 2       \* engine calls and transport events per run
MaxPayloadLen == 12  \* longest RPC payload
MaxCalls == 100      \* calls in a run of the nonce generator
MaxFreeSlots == 3    \* free slots of the queue when a multi-frame send starts

Node == {"A", "B"}
Peer(n) == IF n = "A" THEN "B" ELSE "A"

(***************************************************************************)
(* Program constants (artie_can.h).                                        *)
(***************************************************************************)
ARTIE_CAN_MAX_DATA_SIZE == 8
ARTIE_CAN_MAX_ADDRESS == 63
ARTIE_CAN_BROADCAST_ADDRESS == 0
ARTIE_CAN_PROTOCOL_RTACP == 0
ARTIE_CAN_PROTOCOL_RPCACP == 2
ARTIE_CAN_PROTOCOL_PSACP_HIGH == 4
ARTIE_CAN_PROTOCOL_BWACP == 5
ARTIE_CAN_PROTOCOL_PSACP_LOW == 6
ARTIE_CAN_MAX_STUFFED_PAYLOAD == 2048
ARTIE_CAN_MAX_RPC_PAYLOAD == 1024
ARTIE_CAN_MAX_PUBSUB_PAYLOAD == 2048
ARTIE_CAN_RTACP_ACK == 0
ARTIE_CAN_RTACP_MSG == 1
ARTIE_CAN_RPCACP_ACK == 0
ARTIE_CAN_RPCACP_NACK == 1
ARTIE_CAN_RPCACP_START_RPC == 2
ARTIE_CAN_RPCACP_START_RETURN == 3
ARTIE_CAN_RPCACP_TX_DATA == 4
ARTIE_CAN_RPCACP_RX_DATA == 5
ARTIE_CAN_PSACP_PUB == 1
ARTIE_CAN_PSACP_DATA == 3
ARTIE_CAN_BWACP_REPEAT == 1
ARTIE_CAN_BWACP_READY == 3
ARTIE_CAN_BWACP_DATA == 7
MOCK_QUEUE_SIZE == 32

(***************************************************************************)
(* Machine arithmetic on naturals.                                         *)
(***************************************************************************)
Pow2(k) == 2 ^ k
Shl(x, k) == x * Pow2(k)
Shr(x, k) == x \div Pow2(k)
\* x & (2^k - 1)
Low(x, k) == x % Pow2(k)
\* bit k of x
Bit(x, k) == Shr(x, k) % 2

RECURSIVE BitXor(_, _)
BitXor(a, b) ==
    IF a = 0 THEN b
    ELSE IF b = 0 THEN a
    ELSE (((a % 2) + (b % 2)) % 2) + 2 * BitXor(a \div 2, b \div 2)

Min(a, b) == IF a < b THEN a ELSE b

\* A 32-bit value (uint32_t) as its two 16-bit halves
U32(hi, lo) == [hi |-> hi, lo |-> lo]

\* s[from+1 .. from+cnt], the bytes memcpy(dst, &s[from], cnt) copies
Bytes(s, from, cnt) == SubSeq(s, from + 1, from + cnt)

(***************************************************************************)
(* artie_can_utils.c                                                       *)
(***************************************************************************)
RECURSIVE Crc16Bits(_, _)
Crc16Bits(crc, j) ==
    IF j = 0 THEN crc
    ELSE Crc16Bits(IF Bit(crc, 15) = 1
                     THEN Low(BitXor(Shl(crc, 1), 4129), 16)   \* 0x1021
                     ELSE Low(Shl(crc, 1), 16),
                   j - 1)

\* The outer loop of artie_can_crc16 over data[lo..hi], evaluated by halves:
\* the value after the bytes lo..hi is that after mid+1..hi started from
\* the value after lo..mid
RECURSIVE Crc16Range(_, _, _, _)
Crc16Range(crc, data, lo, hi) ==
    IF lo > hi THEN crc
    ELSE IF lo = hi THEN Crc16Bits(BitXor(crc, Shl(data[lo], 8)), 8)
    ELSE LET mid == (lo + hi) \div 2
             c == Crc16Range(crc, data, lo, mid)
         IN IF c >= 0 THEN Crc16Range(c, data, mid + 1, hi) ELSE c


artie_can_crc16(data) == Crc16Range(65535, data, 1, Len(data))

\* The inner loop of artie_can_crc24.  The variable crc of the code has 32
\* bits, of which the function returns the low 24; the bits above them
\* never reach the low 24 (crc is only shifted left and XORed), so crc is
\* kept here as its low 24 bits.
RECURSIVE Crc24Bits(_, _)
Crc24Bits(crc, j) ==
    IF j = 0 THEN crc
    ELSE Crc24Bits(IF Bit(crc, 23) = 1
                     THEN Low(BitXor(Shl(crc, 1), 8801531), 24)   \* 0x864CFB
                     ELSE Low(Shl(crc, 1), 24),
                   j - 1)

\* The outer loop of artie_can_crc24 over data[lo..hi], evaluated by halves:
\* the value after the bytes lo..hi is that after mid+1..hi started from
\* the value after lo..mid
RECURSIVE Crc24Range(_, _, _, _)
Crc24Range(crc, data, lo, hi) ==
    IF lo > hi THEN crc
    ELSE IF lo = hi THEN Crc24Bits(BitXor(crc, Shl(data[lo], 16)), 8)
    ELSE LET mid == (lo + hi) \div 2
             c == Crc24Range(crc, data, lo, mid)
         IN IF c >= 0 THEN Crc24Range(c, data, mid + 1, hi) ELSE c


\* 0xB704CE is the initial value
artie_can_crc24(data) == Low(Crc24Range(11994318, data, 1, Len(data)), 24)

\* The while loop of artie_can_byte_stuff from in_idx on, out being what has
\* been written so far.  Result: [rc, out].
RECURSIVE ByteStuffLoop(_, _, _, _)
ByteStuffLoop(input, in_idx, out, output_max_len) ==
    IF in_idx < Len(input)
      THEN LET remaining == Len(input) - in_idx
               chunk_size == IF remaining > 254 THEN 254 ELSE remaining
           IN IF Len(out) + 1 + chunk_size + 1 > output_max_len
                THEN [rc |-> -1, out |-> <<>>]
                ELSE ByteStuffLoop(input, in_idx + chunk_size,
                                   out \o <<chunk_size>> \o Bytes(input, in_idx, chunk_size),
                                   output_max_len)
      ELSE IF Len(out) >= output_max_len
             THEN [rc |-> -1, out |-> <<>>]
             ELSE [rc |-> 0, out |-> Append(out, 255)]

\* Variant of artie_can_byte_stuff that writes nothing for the empty input
artie_can_byte_stuff_EmptyAsNothing(input, output_max_len) ==
    IF Len(input) = 0
      THEN [rc |-> 0, out |-> <<>>]
      ELSE ByteStuffLoop(input, 0, <<>>, output_max_len)

artie_can_byte_stuff(input, output_max_len) ==
    IF Len(input) = 0
      THEN IF output_max_len < 1 THEN [rc |-> -1, out |-> <<>>]
                                 ELSE [rc |-> 0, out |-> <<255>>]
      ELSE ByteStuffLoop(input, 0, <<>>, output_max_len)

\* Variant of ByteUnstuffLoop that takes a marker 0x00 for a run of no bytes
RECURSIVE ByteUnstuffLoop_ZeroAccepted(_, _, _, _)
ByteUnstuffLoop_ZeroAccepted(input, in_idx, out, output_max_len) ==
    IF in_idx < Len(input)
      THEN LET special_byte == input[in_idx + 1]
           IN IF special_byte = 255 THEN [rc |-> 0, out |-> out]
              ELSE IF in_idx + 1 + special_byte > Len(input) THEN [rc |-> -1, out |-> out]
              ELSE IF Len(out) + special_byte > output_max_len THEN [rc |-> -1, out |-> out]
              ELSE ByteUnstuffLoop_ZeroAccepted(input, in_idx + 1 + special_byte,
                                                out \o Bytes(input, in_idx + 1, special_byte),
                                                output_max_len)
      ELSE [rc |-> 0, out |-> out]

\* The while loop of artie_can_byte_unstuff.  Result: [rc, out], out being
\* the bytes written to the output buffer (also when rc is an error).
RECURSIVE ByteUnstuffLoop(_, _, _, _)
ByteUnstuffLoop(input, in_idx, out, output_max_len) ==
    IF in_idx < Len(input)
      THEN LET special_byte == input[in_idx + 1]
           IN IF special_byte = 0 THEN [rc |-> -1, out |-> out]
              ELSE IF special_byte = 255 THEN [rc |-> 0, out |-> out]
              ELSE IF in_idx + 1 + special_byte > Len(input) THEN [rc |-> -1, out |-> out]
              ELSE IF Len(out) + special_byte > output_max_len THEN [rc |-> -1, out |-> out]
              ELSE ByteUnstuffLoop(input, in_idx + 1 + special_byte,
                                   out \o Bytes(input, in_idx + 1, special_byte),
                                   output_max_len)
      ELSE [rc |-> 0, out |-> out]

\* Variant of artie_can_byte_unstuff that keeps one byte of the output
\* buffer free
artie_can_byte_unstuff_OneLess(input, output_max_len) ==
    IF Len(input) = 0 THEN [rc |-> -1, out |-> <<>>]
    ELSE IF Len(input) = 1 /\ input[1] = 255 THEN [rc |-> 0, out |-> <<>>]
    ELSE ByteUnstuffLoop(input, 0, <<>>, output_max_len - 1)

artie_can_byte_unstuff(input, output_max_len) ==
    IF Len(input) = 0 THEN [rc |-> -1, out |-> <<>>]
    ELSE IF Len(input) = 1 /\ input[1] = 255 THEN [rc |-> 0, out |-> <<>>]
    ELSE ByteUnstuffLoop(input, 0, <<>>, output_max_len)

\* Variant of artie_can_get_protocol that reads two bits of the tag
artie_can_get_protocol_TwoBits(frame) == Low(Shr(frame.can_id, 26), 2)

artie_can_get_protocol(frame) == Low(Shr(frame.can_id, 26), 3)

(***************************************************************************)
(* CAN frames and the transport.                                           *)
(***************************************************************************)
Frame(can_id, data) ==
    [can_id |-> can_id, dlc |-> Len(data), data |-> data, extended |-> TRUE]

\* Filler of a log entry that carries no frame
NoFrame == [can_id |-> 0, dlc |-> 0, data |-> <<>>, extended |-> FALSE]

\* mock_tcp_send: -1 when not connected, else the frame goes to the peer
TransportSend == IF up THEN 0 ELSE -1
\* mock_tcp_receive when it returns no frame: -1 when not connected, -2 when
\* select finds nothing to read within timeout_ms
TransportNoFrame == IF up THEN -2 ELSE -1

SendEv(f, r) == [k |-> "send", f |-> f, r |-> r, t |-> 0]
RecvEv(f, r, t) == [k |-> "recv", f |-> f, r |-> r, t |-> t]

Sends(log) == SelectSeq(log, LAMBDA e : e.k = "send")
Recvs(log) == SelectSeq(log, LAMBDA e : e.k = "recv")

\* link after the transport was asked to send f for n with result r
Deliver(n, f, r) ==
    IF r = 0 THEN [link EXCEPT ![Peer(n)] = Append(@, f)] ELSE link


(***************************************************************************)
(* artie_can_rtacp.c                                                       *)
(***************************************************************************)
RtMsg(frame_type, priority, sender_addr, target_addr, data, data_len) ==
    [frame_type |-> frame_type, priority |-> priority, sender_addr |-> sender_addr,
     target_addr |-> target_addr, data |-> data, data_len |-> data_len]

\* A caller's message structure before receive has written to it
RtMsg0 == RtMsg(0, 0, 0, 0, <<>>, 0)

rtacp_build_can_id(msg) ==
    Shl(ARTIE_CAN_PROTOCOL_RTACP, 26)
    + Shl(Low(msg.frame_type, 1), 25)
    + Shl(Low(msg.priority, 2), 23)
    + Shl(Low(msg.sender_addr, 6), 16)
    + Shl(Low(msg.target_addr, 6), 10)
    + 1023

\* [rc, msg]: msg is what the caller's structure holds afterwards
rtacp_parse_frame(frame) ==
    LET can_id == frame.can_id
        hdr == RtMsg(Low(Shr(can_id, 25), 1), Low(Shr(can_id, 23), 2),
                     Low(Shr(can_id, 16), 6), Low(Shr(can_id, 10), 6),
                     <<>>, frame.dlc)
    IN IF frame.dlc > ARTIE_CAN_MAX_DATA_SIZE
         THEN [rc |-> -1, msg |-> hdr]
         ELSE [rc |-> 0, msg |-> [hdr EXCEPT !.data = Bytes(frame.data, 0, frame.dlc)]]

\* artie_can_rtacp_send up to its transport send: the frame it builds
RtFrame(msg) == Frame(rtacp_build_can_id(msg), Bytes(msg.data, 0, msg.data_len))

\* RtWaitsForAck without the test for the broadcast address
RtWaitsForAck_Broadcast(msg, wait_ack) ==
    /\ wait_ack
    /\ msg.frame_type = ARTIE_CAN_RTACP_MSG

\* artie_can_rtacp_send, lines 108-109: does the call go on to wait for an ACK
RtWaitsForAck(msg, wait_ack) ==
    /\ wait_ack
    /\ msg.frame_type = ARTIE_CAN_RTACP_MSG
    /\ msg.target_addr # ARTIE_CAN_BROADCAST_ADDRESS

\* RtAckMatches comparing the length of the data but not its bytes
RtAckMatches_NoMemcmp(ack_msg, msg) ==
    /\ ack_msg.frame_type = ARTIE_CAN_RTACP_ACK
    /\ ack_msg.sender_addr = msg.target_addr
    /\ ack_msg.target_addr = msg.sender_addr
    /\ ack_msg.data_len = msg.data_len

\* artie_can_rtacp_send, lines 121-125: is ack_msg the ACK the call waits for
RtAckMatches(ack_msg, msg) ==
    /\ ack_msg.frame_type = ARTIE_CAN_RTACP_ACK
    /\ ack_msg.sender_addr = msg.target_addr
    /\ ack_msg.target_addr = msg.sender_addr
    /\ ack_msg.data_len = msg.data_len
    /\ Bytes(ack_msg.data, 0, msg.data_len) = Bytes(msg.data, 0, msg.data_len)

\* RtShouldAck acknowledging every MSG, whoever it is addressed to
RtShouldAck_AnyTarget(addr, msg) ==
    msg.frame_type = ARTIE_CAN_RTACP_MSG

\* artie_can_rtacp_receive, lines 177-178: does the received message get an ACK
RtShouldAck(addr, msg) ==
    /\ msg.frame_type = ARTIE_CAN_RTACP_MSG
    /\ msg.target_addr = addr

\* RtAckFor keeping the message's sender and target instead of swapping them
RtAckFor_NoSwap(addr, msg) ==
    [frame_type |-> ARTIE_CAN_RTACP_ACK, priority |-> msg.priority,
     sender_addr |-> msg.sender_addr, target_addr |-> msg.target_addr,
     data |-> msg.data, data_len |-> msg.data_len]

\* artie_can_rtacp_receive, lines 180-186: the ACK for msg
RtAckFor(addr, msg) ==
    RtMsg(ARTIE_CAN_RTACP_ACK, msg.priority, addr, msg.sender_addr, msg.data, msg.data_len)

\* One turn of the loop of artie_can_rtacp_receive on frame f, the caller's
\* structure holding cur:
\*   cont  the frame is not RT and the loop receives again
\*   rc    the value returned (when not cont)
\*   msg   the caller's structure afterwards
\*   ack   an ACK is handed to the transport, and ackf is its frame
RtOnFrame(addr, f, cur) ==
    IF artie_can_get_protocol(f) # ARTIE_CAN_PROTOCOL_RTACP
      THEN [cont |-> TRUE, rc |-> 0, msg |-> cur, ack |-> FALSE, ackf |-> NoFrame]
      ELSE LET p == rtacp_parse_frame(f)
           IN IF p.rc # 0
                THEN [cont |-> FALSE, rc |-> p.rc, msg |-> p.msg, ack |-> FALSE, ackf |-> NoFrame]
                ELSE IF RtShouldAck(addr, p.msg)
                       THEN [cont |-> FALSE, rc |-> 0, msg |-> p.msg, ack |-> TRUE,
                             ackf |-> RtFrame(RtAckFor(addr, p.msg))]
                       ELSE [cont |-> FALSE, rc |-> 0, msg |-> p.msg, ack |-> FALSE,
                             ackf |-> NoFrame]

(***************************************************************************)
(* Inputs of the RT calls.                                                 *)
(***************************************************************************)

(***************************************************************************)
(* The state of a call.                                                    *)
(*   name, pc    which call, and where it is: "idle" (no call yet),        *)
(*               "ackwait" / "recv" (blocked in the transport's receive),  *)
(*               "done" (returned res)                                     *)
(*   msg, wait_ack, timeout_ms   the arguments                             *)
(*   out         the message structure receive writes (for rt_send: its    *)
(*               local ack_msg)                                            *)
(*   log         the transport calls made, in order                        *)
(*   echo        history of the peer's receive on this call's frame, kept  *)
(*               while the call waits for its ACK: pos is the place of the *)
(*               frame in the peer's link (0: not there), ran is set when  *)
(*               the peer's rt_receive took it, with what it returned      *)
(***************************************************************************)
Echo0 == [pos |-> 0, ran |-> FALSE, clean |-> FALSE, rc |-> 0, msg |-> RtMsg0,
          ack |-> FALSE, ackf |-> NoFrame]

RtOp(name, pc, msg, wait_ack, timeout_ms, res, out, log, echo) ==
    [name |-> name, pc |-> pc, msg |-> msg, wait_ack |-> wait_ack,
     timeout_ms |-> timeout_ms, res |-> res, out |-> out, log |-> log, echo |-> echo]

Idle == RtOp("none", "idle", RtMsg0, FALSE, 0, 0, RtMsg0, <<>>, Echo0)

CanCall(n) == op[n].pc \in {"idle", "done"} /\ events < MaxEvents


\* The contexts A and B: A may have been given the broadcast address
Init ==
    /\ node_address \in ({[n \in Node |-> IF n = "A" THEN a ELSE 2] : a \in {0, 1}})
    /\ link = [n \in Node |-> <<>>]
    /\ up = TRUE
    /\ op = [n \in Node |-> Idle]
    /\ seed = [n \in Node |-> 1]
    /\ events = 0

\* artie_can_rtacp_send(ctx, msg, wait_ack) up to its return or to the
\* receive of its ACK wait
RtSendCall(n, msg, wait_ack) ==
    /\ CanCall(n)
    /\ events' = events + 1
    /\ IF msg.data_len > ARTIE_CAN_MAX_DATA_SIZE
         THEN /\ op' = [op EXCEPT ![n] = RtOp("rt_send", "done", msg, wait_ack, 0, -1,
                                              RtMsg0, <<>>, Echo0)]
              /\ link' = link
         ELSE LET f == RtFrame(msg)
                  r == TransportSend
                  log == <<SendEv(f, r)>>
              IN /\ link' = Deliver(n, f, r)
                 /\ op' = [op EXCEPT ![n] =
                      IF r # 0
                        THEN RtOp("rt_send", "done", msg, wait_ack, 0, r, RtMsg0, log, Echo0)
                      ELSE IF RtWaitsForAck(msg, wait_ack)
                        THEN RtOp("rt_send", "ackwait", msg, wait_ack, 1, 0, RtMsg0, log,
                                  [Echo0 EXCEPT !.pos = Len(link'[Peer(n)])])
                      ELSE RtOp("rt_send", "done", msg, wait_ack, 0, 0, RtMsg0, log, Echo0)]
    /\ UNCHANGED <<node_address, up, seed>>

\* artie_can_rtacp_receive(ctx, msg, timeout_ms) up to its transport receive
RtReceiveCall(n, timeout_ms) ==
    /\ CanCall(n)
    /\ events' = events + 1
    /\ op' = [op EXCEPT ![n] = RtOp("rt_receive", "recv", RtMsg0, FALSE, timeout_ms, 0,
                                    RtMsg0, <<>>, Echo0)]
    /\ UNCHANGED <<node_address, link, up, seed>>

\* Variant of RtAfterReceive in which receive returns -1 for every failure
\* of the transport's receive
RtAfterReceive_PlainError(o, rc, msg, log) ==
    IF o.name = "rt_receive"
      THEN [o EXCEPT !.pc = "done", !.res = IF rc = 0 THEN 0 ELSE -1, !.out = msg,
                     !.log = log]
      ELSE [o EXCEPT !.pc = "done", !.out = msg, !.log = log,
                     !.res = IF rc = 0 /\ RtAckMatches(msg, o.msg) THEN 0 ELSE -1]

\* Variant of RtAfterReceive in which send takes every message its receive
\* returns for its ACK
RtAfterReceive_AnyMessage(o, rc, msg, log) ==
    IF o.name = "rt_receive"
      THEN [o EXCEPT !.pc = "done", !.res = rc, !.out = msg, !.log = log]
      ELSE [o EXCEPT !.pc = "done", !.out = msg, !.log = log,
                     !.res = IF rc = 0 THEN 0 ELSE -1]

\* What the return of artie_can_rtacp_receive with rc and msg makes of call o
RtAfterReceive(o, rc, msg, log) ==
    IF o.name = "rt_receive"
      THEN [o EXCEPT !.pc = "done", !.res = rc, !.out = msg, !.log = log]
      ELSE [o EXCEPT !.pc = "done", !.out = msg, !.log = log,
                     !.res = IF rc = 0 /\ RtAckMatches(msg, o.msg) THEN 0 ELSE -1]

\* The peer's call, as its history is after n's receive took the frame at
\* the head of link[n] with outcome x
EchoAfter(n, x) ==
    LET po == op[Peer(n)]
    IN IF po.pc = "ackwait" /\ po.echo.pos > 0
         THEN IF po.echo.pos > 1
                THEN [po EXCEPT !.echo.pos = @ - 1]
                ELSE [po EXCEPT !.echo =
                        [pos |-> 0, ran |-> op[n].name = "rt_receive",
                         clean |-> \A i \in 1..Len(link[Peer(n)]) :
                                    artie_can_get_protocol(link[Peer(n)][i]) # ARTIE_CAN_PROTOCOL_RTACP,
                         rc |-> x.rc, msg |-> x.msg, ack |-> x.ack, ackf |-> x.ackf]]
         ELSE po

\* The transport's receive returns the oldest frame in flight to n, and the
\* receive loop of artie_can_rtacp_receive runs on it, up to the return of
\* the engine call or to the next transport receive.
RtTakeFrame(n) ==
    /\ op[n].pc \in {"ackwait", "recv"}
    /\ up
    /\ link[n] # <<>>
    /\ LET f == Head(link[n])
           x == RtOnFrame(node_address[n], f, op[n].out)
           log0 == Append(op[n].log, RecvEv(f, 0, op[n].timeout_ms))
           log == IF x.ack THEN Append(log0, SendEv(x.ackf, TransportSend)) ELSE log0
       IN /\ link' = [m \in Node |->
                        IF m = n THEN Tail(link[n])
                        ELSE IF x.ack /\ TransportSend = 0 THEN Append(link[m], x.ackf)
                        ELSE link[m]]
          /\ op' = [m \in Node |->
                      IF m = n
                        THEN IF x.cont THEN [op[n] EXCEPT !.log = log]
                                       ELSE RtAfterReceive(op[n], x.rc, x.msg, log)
                        ELSE EchoAfter(n, x)]
    /\ UNCHANGED <<node_address, up, seed, events>>

\* The transport's receive returns without a frame: not connected, or
\* nothing in flight to n until timeout_ms has passed
RtNoFrame(n) ==
    /\ op[n].pc \in {"ackwait", "recv"}
    /\ ~up \/ link[n] = <<>>
    /\ LET r == TransportNoFrame
       IN op' = [op EXCEPT ![n] =
                   RtAfterReceive(op[n], r, op[n].out,
                                  Append(op[n].log, RecvEv(NoFrame, r, op[n].timeout_ms)))]
    /\ UNCHANGED <<node_address, link, up, seed, events>>

\* Another node of the bus puts a frame of another family on the link to n
BusNoise(n, f) ==
    /\ events < MaxEvents
    /\ events' = events + 1
    /\ link' = [link EXCEPT ![n] = Append(@, f)]
    /\ UNCHANGED <<node_address, up, op, seed>>

\* The connection is lost (mock_tcp_close on either side), or made again
Disconnect ==
    /\ up
    /\ events < MaxEvents
    /\ events' = events + 1
    /\ up' = FALSE
    /\ UNCHANGED <<node_address, link, op, seed>>

Connect ==
    /\ ~up
    /\ events < MaxEvents
    /\ events' = events + 1
    /\ up' = TRUE
    /\ UNCHANGED <<node_address, link, op, seed>>

\* nine bytes: one more than a frame holds
\* Frames of other families that other nodes of the bus put on a link
\* The messages context n sends: every frame type to every address, and to
\* the peer every frame type with other data (the same length with other
\* content, and another length) and another priority
Next ==
    \/ \E n \in Node, wait_ack \in BOOLEAN :
         \E msg \in ({ RtMsg(ft, 0, node_address[n], ta, <<222, 173>>, 2) :
                         ft \in ({ARTIE_CAN_RTACP_ACK, ARTIE_CAN_RTACP_MSG}), ta \in {0, 1, 2} }
                     \cup { RtMsg(ft, 3, node_address[n], node_address[Peer(n)], d, Len(d)) :
                              ft \in ({ARTIE_CAN_RTACP_ACK, ARTIE_CAN_RTACP_MSG}), d \in {<<222, 174>>, <<222>>} }
                     \cup { RtMsg(ARTIE_CAN_RTACP_MSG, 0, node_address[n], node_address[Peer(n)],
                                  Bytes((<<1, 2, 3, 4, 5, 6, 7, 8, 9>>), 0, ARTIE_CAN_MAX_DATA_SIZE), Len((<<1, 2, 3, 4, 5, 6, 7, 8, 9>>))) }) : RtSendCall(n, msg, wait_ack)
    \/ \E n \in Node, t \in {10} : RtReceiveCall(n, t)
    \/ \E n \in Node : RtTakeFrame(n)
    \/ \E n \in Node : RtNoFrame(n)
    \/ \E n \in Node, f \in ({ Frame(Shl(ARTIE_CAN_PROTOCOL_RPCACP, 26) + Shl(ARTIE_CAN_RPCACP_ACK, 22) + 7, <<>>),
                               Frame(Shl(ARTIE_CAN_PROTOCOL_PSACP_HIGH, 26) + Shl(1, 22) + 63, <<0, 0, 255>>) }) : BusNoise(n, f)
    \/ Disconnect
    \/ Connect

Spec == Init /\ [][Next]_vars

\* As RtTakeFrame on a MSG addressed to n, but the send() of the ACK fails
\* (mock_tcp_send returns -1): the receive loop does not look at what the
\* send of the ACK returned and goes on to its return.
RtTakeFrameAckLost(n) ==
    /\ op[n].pc \in {"ackwait", "recv"}
    /\ up
    /\ link[n] # <<>>
    /\ LET f == Head(link[n])
           x == RtOnFrame(node_address[n], f, op[n].out)
           log == op[n].log \o <<RecvEv(f, 0, op[n].timeout_ms), SendEv(x.ackf, -1)>>
       IN /\ x.ack
          /\ link' = [link EXCEPT ![n] = Tail(@)]
          /\ op' = [m \in Node |->
                      IF m = n THEN RtAfterReceive(op[n], x.rc, x.msg, log)
                               ELSE EchoAfter(n, x)]
    /\ UNCHANGED <<node_address, up, seed, events>>

\* The RT calls over a transport whose send may fail while it is connected
NextAckLost ==
    \/ Next
    \/ \E n \in Node : RtTakeFrameAckLost(n)

SpecAckLost == Init /\ [][NextAckLost]_vars


(***************************************************************************)
(* artie_can_rpcacp.c                                                      *)
(***************************************************************************)
rpcacp_build_can_id(frame_type, priority, sender_addr, target_addr, random_value) ==
    Shl(ARTIE_CAN_PROTOCOL_RPCACP, 26)
    + Shl(Low(frame_type, 4), 22)
    + Shl(Low(priority, 2), 20)
    + Shl(Low(sender_addr, 6), 14)
    + Shl(Low(target_addr, 6), 8)
    + random_value

RpcMsg0 ==
    [priority |-> 0, sender_addr |-> 0, target_addr |-> 0, random_value |-> 0,
     frame_type |-> 0, is_synchronous |-> FALSE, procedure_id |-> 0, crc16 |-> 0,
     payload |-> <<>>, payload_len |-> 0, nack_error_code |-> 0]

\* Variant of rpcacp_parse_can_id that reads the two addresses from each
\* other's field
rpcacp_parse_can_id_Swapped(can_id, msg) ==
    [msg EXCEPT !.frame_type = Low(Shr(can_id, 22), 4),
                !.priority = Low(Shr(can_id, 20), 2),
                !.sender_addr = Low(Shr(can_id, 8), 6),
                !.target_addr = Low(Shr(can_id, 14), 6),
                !.random_value = Low(can_id, 8)]

\* msg after rpcacp_parse_can_id(can_id, msg)
rpcacp_parse_can_id(can_id, msg) ==
    [msg EXCEPT !.frame_type = Low(Shr(can_id, 22), 4),
                !.priority = Low(Shr(can_id, 20), 2),
                !.sender_addr = Low(Shr(can_id, 14), 6),
                !.target_addr = Low(Shr(can_id, 8), 6),
                !.random_value = Low(can_id, 8)]

\* Variant of rpcacp_generate_random with an odd increment and without the
\* replacement of 0
rpcacp_generate_random_NoZeroFix(s) == (s * 75 + 73) % 256

\* The seed after one step of rpcacp_generate_random, which is also the
\* value returned
rpcacp_generate_random(s) ==
    LET t == (s * 75 + 74) % 256
    IN IF t = 0 THEN 1 ELSE t

\* Variant of RpcStuffed that stuffs a payload of length 0 as well
RpcStuffed_Always(payload) ==
    artie_can_byte_stuff(payload, ARTIE_CAN_MAX_STUFFED_PAYLOAD)

\* The stuffed payload of call and respond (lines 88-98): a payload of
\* length 0 is not handed to artie_can_byte_stuff
RpcStuffed(payload) ==
    IF Len(payload) > 0
      THEN artie_can_byte_stuff(payload, ARTIE_CAN_MAX_STUFFED_PAYLOAD)
      ELSE [rc |-> 0, out |-> <<>>]

\* frame.data[0..2] (lines 118-120)
RpcFrameHeader(h, stuffed) ==
    LET crc == artie_can_crc16(<<h>> \o stuffed)
    IN <<h, Low(Shr(crc, 8), 8), Low(crc, 8)>>

\* Variant of RpcTxDataFrames that sends full frames only, leaving out the
\* shorter last one
RpcTxDataFrames_FullOnly(stuffed, data_offset, can_id) ==
    [j \in 1..((Len(stuffed) - data_offset) \div ARTIE_CAN_MAX_DATA_SIZE) |->
       Frame(can_id, Bytes(stuffed, data_offset + ARTIE_CAN_MAX_DATA_SIZE * (j - 1),
                           ARTIE_CAN_MAX_DATA_SIZE))]

\* The iterations of the while loop of call (lines 149-165) whose
\* data_offset lies in data_offset..limit-1, evaluated by halves: the frames
\* they hand to the transport when every send succeeds.  Every iteration
\* but the last advances data_offset by ARTIE_CAN_MAX_DATA_SIZE.
RECURSIVE RpcTxDataLoop(_, _, _, _)
RpcTxDataLoop(stuffed, data_offset, limit, can_id) ==
    IF data_offset >= limit THEN <<>>
    ELSE IF limit - data_offset <= ARTIE_CAN_MAX_DATA_SIZE
      THEN LET remaining == Len(stuffed) - data_offset
               chunk_size == IF remaining > ARTIE_CAN_MAX_DATA_SIZE
                               THEN ARTIE_CAN_MAX_DATA_SIZE ELSE remaining
           IN <<Frame(can_id, Bytes(stuffed, data_offset, chunk_size))>>
    ELSE LET iterations == (limit - data_offset + ARTIE_CAN_MAX_DATA_SIZE - 1)
                           \div ARTIE_CAN_MAX_DATA_SIZE
             mid == data_offset + ARTIE_CAN_MAX_DATA_SIZE * (iterations \div 2)
         IN RpcTxDataLoop(stuffed, data_offset, mid, can_id)
            \o RpcTxDataLoop(stuffed, mid, limit, can_id)

\* The while loop of call (lines 149-165) from data_offset on: the TX_DATA
\* frames handed to the transport when every send succeeds
RpcTxDataFrames(stuffed, data_offset, can_id) ==
    RpcTxDataLoop(stuffed, data_offset, Len(stuffed), can_id)

\* call takes its single-frame branch (line 125), which returns the result
\* of the transport's send
RpcSingleFrame(stuffed) == Len(stuffed) <= ARTIE_CAN_MAX_DATA_SIZE - 3

\* The frames call hands to the transport when every send succeeds;
\* crc_data[0] of call (line 102) is the first argument of RpcFrameHeader
RpcCallFrames(addr, a, stuffed, random_value) ==
    LET hdr == RpcFrameHeader((IF a.is_synchronous THEN 128 ELSE 0) + Low(a.procedure_id, 7), stuffed)
        start == rpcacp_build_can_id(ARTIE_CAN_RPCACP_START_RPC, a.priority, addr,
                                     a.target_addr, random_value)
        frame_data_space == ARTIE_CAN_MAX_DATA_SIZE - 3
    IN IF RpcSingleFrame(stuffed)
         THEN <<Frame(start, hdr \o stuffed)>>
         ELSE <<Frame(start, hdr \o Bytes(stuffed, 0, frame_data_space))>>
              \o RpcTxDataFrames(stuffed, frame_data_space,
                                 rpcacp_build_can_id(ARTIE_CAN_RPCACP_TX_DATA, a.priority,
                                                     addr, a.target_addr, random_value))

\* The caller's buffer old after new was written at its start
Overwrite(old, new) == new \o SubSeq(old, Len(new) + 1, Len(old))

\* artie_can_rpcacp_receive once the transport has returned frame f, the
\* caller's structure holding cur: [rc, msg]
RpcOnFrame(f, cur) ==
    IF artie_can_get_protocol(f) # ARTIE_CAN_PROTOCOL_RPCACP
      THEN [rc |-> -1, msg |-> cur]
      ELSE
        LET m == rpcacp_parse_can_id(f.can_id, cur)
        IN IF m.frame_type = ARTIE_CAN_RPCACP_ACK
             THEN [rc |-> 0, msg |-> [m EXCEPT !.payload_len = 0]]
           ELSE IF m.frame_type = ARTIE_CAN_RPCACP_NACK
             THEN IF f.dlc < 1
                    THEN [rc |-> -1, msg |-> m]
                    ELSE [rc |-> 0, msg |-> [m EXCEPT !.nack_error_code = f.data[1],
                                                      !.payload_len = 0]]
           ELSE IF m.frame_type \in {ARTIE_CAN_RPCACP_START_RPC, ARTIE_CAN_RPCACP_START_RETURN}
             THEN IF f.dlc < 3
                    THEN [rc |-> -1, msg |-> m]
                    ELSE
                      LET h == [m EXCEPT !.is_synchronous = Bit(f.data[1], 7) = 1,
                                         !.procedure_id = Low(f.data[1], 7),
                                         !.crc16 = Shl(f.data[2], 8) + f.data[3]]
                          stuffed_data == Bytes(f.data, 3, f.dlc - 3)
                          u == artie_can_byte_unstuff(stuffed_data, ARTIE_CAN_MAX_RPC_PAYLOAD)
                      IN IF Len(stuffed_data) > 0
                           THEN IF u.rc # 0
                                  THEN [rc |-> u.rc,
                                        msg |-> [h EXCEPT !.payload = Overwrite(@, u.out)]]
                                  ELSE [rc |-> 0,
                                        msg |-> [h EXCEPT !.payload = Overwrite(@, u.out),
                                                          !.payload_len = Len(u.out)]]
                           ELSE [rc |-> 0, msg |-> [h EXCEPT !.payload_len = 0]]
           ELSE [rc |-> -1, msg |-> m]

\* What call returns (lines 172-184) once its receive has returned rc with
\* the structure response
RpcCallResult(rc, response) ==
    IF rc # 0 THEN rc
    ELSE IF response.frame_type = ARTIE_CAN_RPCACP_NACK THEN -response.nack_error_code
    ELSE IF response.frame_type # ARTIE_CAN_RPCACP_ACK THEN -1
    ELSE 0

(***************************************************************************)
(* Inputs of the RPC calls.  A is the calling context, B the called one.   *)
(***************************************************************************)
Payload(len) == [i \in 1..len |-> i]

RpcArgs(target_addr, priority, is_synchronous, procedure_id, payload, random_value, error_code) ==
    [target_addr |-> target_addr, priority |-> priority,
     is_synchronous |-> is_synchronous, procedure_id |-> procedure_id,
     payload |-> payload, random_value |-> random_value, error_code |-> error_code]

\* Calls of every payload length to the peer, and calls to another node and
\* to the broadcast address with the other arguments varied
RpcCalls(n) ==
    { RpcArgs(node_address[Peer(n)], 1, TRUE, 66, Payload(len), 0, 0) :
        len \in 0..MaxPayloadLen }
    \cup { RpcArgs(ta, 3, sy, 194, Payload(len), 0, 0) :
             ta \in {0, 5}, sy \in BOOLEAN, len \in {3, 6} }

\* The nonce of the first call of a process (seed 1), and another one
RpcNonces == {rpcacp_generate_random(1), 7}

(***************************************************************************)
(* The state of an RPC call: a the arguments, random_value the nonce call  *)
(* generated, out the structure its receive writes (response of call).     *)
(***************************************************************************)
RpcOp(name, pc, a, random_value, timeout_ms, res, out, log) ==
    [name |-> name, pc |-> pc, a |-> a, random_value |-> random_value,
     timeout_ms |-> timeout_ms, res |-> res, out |-> out, log |-> log]


InitRPC ==
    /\ node_address = [n \in Node |-> IF n = "A" THEN 1 ELSE 2]
    /\ link = [n \in Node |-> <<>>]
    /\ up = TRUE
    /\ op = [n \in Node |-> RpcOp("none", "idle", (RpcArgs(0, 0, FALSE, 0, <<>>, 0, 0)), 0, 0, 0, RpcMsg0, <<>>)]
    /\ seed = [n \in Node |-> 1]
    /\ events = 0

\* The transport is asked to send frames in order, stopping at the first
\* send that fails: the log of these sends
SendLog(frames) ==
    IF TransportSend = 0
      THEN [i \in 1..Len(frames) |-> SendEv(frames[i], 0)]
      ELSE <<SendEv(frames[1], TransportSend)>>

\* link after n sent frames in this way
DeliverAll(n, frames) ==
    IF TransportSend = 0 THEN [link EXCEPT ![Peer(n)] = @ \o frames] ELSE link

\* Variant of RpcCallBroadcast that lets calls to the broadcast address through
RpcCallBroadcast_Allowed(target_addr) == FALSE

\* The test of call for the broadcast address (lines 84-86)
RpcCallBroadcast(target_addr) == target_addr = ARTIE_CAN_BROADCAST_ADDRESS

\* artie_can_rpcacp_call up to its return or to the receive of the response
RpcCallBody(n, a) ==
    /\ LET st == RpcStuffed(a.payload)
           rv == rpcacp_generate_random(seed[n])
           frames == RpcCallFrames(node_address[n], a, st.out, rv)
       IN IF RpcCallBroadcast(a.target_addr) \/ st.rc # 0
            THEN /\ op' = [op EXCEPT ![n] =
                            RpcOp("rpc_call", "done", a, 0, 0,
                                  IF RpcCallBroadcast(a.target_addr) THEN -1 ELSE st.rc,
                                  RpcMsg0, <<>>)]
                 /\ UNCHANGED <<link, seed>>
            ELSE /\ seed' = [seed EXCEPT ![n] = rv]
                 /\ link' = DeliverAll(n, frames)
                 /\ op' = [op EXCEPT ![n] =
                            IF RpcSingleFrame(st.out) \/ TransportSend # 0
                              THEN RpcOp("rpc_call", "done", a, rv, 0, TransportSend,
                                         RpcMsg0, SendLog(frames))
                              ELSE RpcOp("rpc_call", "resp", a, rv, 30, 0,
                                         RpcMsg0, SendLog(frames))]
    /\ UNCHANGED <<node_address, up>>

RpcCall(n, a) ==
    /\ CanCall(n)
    /\ events' = events + 1
    /\ RpcCallBody(n, a)

\* The receive of call's response returns the oldest frame in flight to n
RpcTakeFrame(n) ==
    /\ op[n].pc = "resp"
    /\ up
    /\ link[n] # <<>>
    /\ LET f == Head(link[n])
           x == RpcOnFrame(f, op[n].out)
       IN op' = [op EXCEPT ![n] =
                   [@ EXCEPT !.pc = "done", !.out = x.msg,
                             !.res = RpcCallResult(x.rc, x.msg),
                             !.log = Append(@, RecvEv(f, 0, op[n].timeout_ms))]]
    /\ link' = [link EXCEPT ![n] = Tail(@)]
    /\ UNCHANGED <<node_address, up, seed, events>>

\* The receive of call's response returns without a frame
RpcNoFrame(n) ==
    /\ op[n].pc = "resp"
    /\ ~up \/ link[n] = <<>>
    /\ LET r == TransportNoFrame
       IN op' = [op EXCEPT ![n] =
                   [@ EXCEPT !.pc = "done", !.res = RpcCallResult(r, op[n].out),
                             !.log = Append(@, RecvEv(NoFrame, r, op[n].timeout_ms))]]
    /\ UNCHANGED <<node_address, link, up, seed, events>>

\* artie_can_rpcacp_send_ack(ctx, target_addr, priority, random_value)
RpcSendAck(n, a) ==
    /\ CanCall(n)
    /\ events' = events + 1
    /\ LET f == Frame(rpcacp_build_can_id(ARTIE_CAN_RPCACP_ACK, a.priority,
                                          node_address[n], a.target_addr, a.random_value),
                      <<>>)
       IN /\ link' = DeliverAll(n, <<f>>)
          /\ op' = [op EXCEPT ![n] = RpcOp("rpc_send_ack", "done", a, 0, 0, TransportSend,
                                           RpcMsg0, SendLog(<<f>>))]
    /\ UNCHANGED <<node_address, up, seed>>

\* artie_can_rpcacp_send_nack(ctx, target_addr, priority, random_value,
\* error_code)
RpcSendNack(n, a) ==
    /\ CanCall(n)
    /\ events' = events + 1
    /\ LET f == Frame(rpcacp_build_can_id(ARTIE_CAN_RPCACP_NACK, a.priority,
                                          node_address[n], a.target_addr, a.random_value),
                      <<a.error_code>>)
       IN /\ link' = DeliverAll(n, <<f>>)
          /\ op' = [op EXCEPT ![n] = RpcOp("rpc_send_nack", "done", a, 0, 0, TransportSend,
                                           RpcMsg0, SendLog(<<f>>))]
    /\ UNCHANGED <<node_address, up, seed>>

\* artie_can_rpcacp_respond(ctx, target_addr, priority, procedure_id,
\* random_value, payload, payload_len); crc_data[0] (line 335) is the first
\* argument of RpcFrameHeader
RpcRespond(n, a) ==
    /\ CanCall(n)
    /\ events' = events + 1
    /\ LET st == RpcStuffed(a.payload)
           f == Frame(rpcacp_build_can_id(ARTIE_CAN_RPCACP_START_RETURN, a.priority,
                                          node_address[n], a.target_addr, a.random_value),
                      RpcFrameHeader(128 + Low(a.procedure_id, 7), st.out) \o st.out)
       IN IF st.rc # 0
            THEN /\ op' = [op EXCEPT ![n] = RpcOp("rpc_respond", "done", a, 0, 0, st.rc,
                                                  RpcMsg0, <<>>)]
                 /\ link' = link
          ELSE IF RpcSingleFrame(st.out)
            THEN /\ op' = [op EXCEPT ![n] = RpcOp("rpc_respond", "done", a, 0, 0,
                                                  TransportSend, RpcMsg0, SendLog(<<f>>))]
                 /\ link' = DeliverAll(n, <<f>>)
          ELSE /\ op' = [op EXCEPT ![n] = RpcOp("rpc_respond", "done", a, 0, 0, -1,
                                                RpcMsg0, <<>>)]
               /\ link' = link
    /\ UNCHANGED <<node_address, up, seed>>

\* A message structure of a caller that holds an earlier message
RpcMsgOld ==
    [priority |-> 2, sender_addr |-> 9, target_addr |-> 9, random_value |-> 9,
     frame_type |-> ARTIE_CAN_RPCACP_NACK, is_synchronous |-> FALSE, procedure_id |-> 9,
     crc16 |-> 9, payload |-> <<9, 9, 9, 9, 9>>, payload_len |-> 5, nack_error_code |-> 9]

RpcTimeouts == {100}

\* artie_can_rpcacp_receive(ctx, msg, timeout_ms) up to the transport's receive
RpcReceiveCall(n, timeout_ms) ==
    /\ CanCall(n)
    /\ events' = events + 1
    /\ op' = [op EXCEPT ![n] = RpcOp("rpc_receive", "recv", (RpcArgs(0, 0, FALSE, 0, <<>>, 0, 0)), 0, timeout_ms, 0,
                                     RpcMsgOld, <<>>)]
    /\ UNCHANGED <<node_address, link, up, seed>>

\* The state of a call of wait_response: response, max_len and actual_len
\* are the caller's buffer, its size and the caller's length variable
RpcWaitOp(pc, timeout_ms, res, out, log, response, max_len, actual_len) ==
    [name |-> "rpc_wait_response", pc |-> pc, a |-> (RpcArgs(0, 0, FALSE, 0, <<>>, 0, 0)), random_value |-> 0,
     timeout_ms |-> timeout_ms, res |-> res, out |-> out, log |-> log,
     response |-> response, max_len |-> max_len, actual_len |-> actual_len]

\* The caller's buffer and length variable before wait_response
RpcBufferBefore(max_len) == [i \in 1..max_len |-> 170]
RpcActualLenBefore == 99

\* artie_can_rpcacp_wait_response(ctx, response, max_len, actual_len,
\* timeout_ms) up to the transport's receive
RpcWaitResponseCall(n, max_len, timeout_ms) ==
    /\ CanCall(n)
    /\ events' = events + 1
    /\ op' = [op EXCEPT ![n] = RpcWaitOp("recv", timeout_ms, 0, RpcMsg0, <<>>,
                                         RpcBufferBefore(max_len), max_len,
                                         RpcActualLenBefore)]
    /\ UNCHANGED <<node_address, link, up, seed>>

\* Variant of RpcWaitAccepts without the test of the payload length
RpcWaitAccepts_NoSizeCheck(msg, max_len) ==
    msg.frame_type = ARTIE_CAN_RPCACP_START_RETURN

\* The tests of wait_response on the message received (lines 203-209)
RpcWaitAccepts(msg, max_len) ==
    /\ msg.frame_type = ARTIE_CAN_RPCACP_START_RETURN
    /\ msg.payload_len <= max_len

\* The call o of receive or wait_response after artie_can_rpcacp_receive
\* returned rc with msg, ev being the transport's receive
RpcAfterReceive(o, rc, msg, ev) ==
    IF o.name = "rpc_receive"
      THEN [o EXCEPT !.pc = "done", !.res = rc, !.out = msg, !.log = Append(@, ev)]
    ELSE IF rc # 0
      THEN [o EXCEPT !.pc = "done", !.res = rc, !.out = msg, !.log = Append(@, ev)]
    ELSE IF ~RpcWaitAccepts(msg, o.max_len)
      THEN [o EXCEPT !.pc = "done", !.res = -1, !.out = msg, !.log = Append(@, ev)]
    ELSE [o EXCEPT !.pc = "done", !.res = 0, !.out = msg, !.log = Append(@, ev),
                   !.response = Overwrite(@, Bytes(msg.payload, 0, msg.payload_len)),
                   !.actual_len = msg.payload_len]

\* The transport's receive of receive or wait_response returns the oldest
\* frame in flight to n
RpcRecvTakeFrame(n) ==
    /\ op[n].pc = "recv"
    /\ up
    /\ link[n] # <<>>
    /\ LET f == Head(link[n])
           x == RpcOnFrame(f, op[n].out)
       IN op' = [op EXCEPT ![n] =
                   RpcAfterReceive(op[n], x.rc, x.msg, RecvEv(f, 0, op[n].timeout_ms))]
    /\ link' = [link EXCEPT ![n] = Tail(@)]
    /\ UNCHANGED <<node_address, up, seed, events>>

\* The transport's receive of receive or wait_response returns without a
\* frame
RpcRecvNoFrame(n) ==
    /\ op[n].pc = "recv"
    /\ ~up \/ link[n] = <<>>
    /\ op' = [op EXCEPT ![n] =
                RpcAfterReceive(op[n], TransportNoFrame, op[n].out,
                                RecvEv(NoFrame, TransportNoFrame, op[n].timeout_ms))]
    /\ UNCHANGED <<node_address, link, up, seed, events>>

\* Responses of 0..4 bytes and of the longest payload to the peer, and one
\* with the high bit of procedure_id set and another nonce
\* Frames of other nodes of the bus: an RT MSG, and an RPC TX_DATA
\* Error codes: 0, 2, ARTIE_CAN_ERROR_EAGAIN and ARTIE_CAN_ERROR_EINVAL
NextRPC ==
    \/ \E a \in RpcCalls("A") : RpcCall("A", a)
    \/ RpcTakeFrame("A")
    \/ RpcNoFrame("A")
    \/ \E a \in ({ RpcArgs(node_address[Peer("B")], 1, FALSE, 0, <<>>, rv, 0) : rv \in RpcNonces }) : RpcSendAck("B", a)
    \/ \E a \in ({ RpcArgs(node_address[Peer("B")], 1, FALSE, 0, <<>>, rv, ec) :
                     rv \in RpcNonces, ec \in {0, 2, 11, 22} }) : RpcSendNack("B", a)
    \/ \E a \in ({ RpcArgs(node_address[Peer("B")], 1, FALSE, 66, Payload(len), rpcacp_generate_random(1), 0) :
                     len \in (0..4) \cup {MaxPayloadLen} }
                 \cup { RpcArgs(node_address[Peer("B")], 3, FALSE, 194, Payload(2), 7, 0) }) : RpcRespond("B", a)
    \/ \E t \in RpcTimeouts : RpcReceiveCall("B", t)
    \/ \E m \in ({0, 2, 4}), t \in RpcTimeouts : RpcWaitResponseCall("A", m, t)
    \/ \E n \in Node : RpcRecvTakeFrame(n)
    \/ \E n \in Node : RpcRecvNoFrame(n)
    \/ \E n \in Node, f \in ({ Frame(Shl(1, 25) + Shl(5, 16) + Shl(1, 10) + 1023, <<1>>),
                               Frame(Shl(ARTIE_CAN_PROTOCOL_RPCACP, 26) + Shl(ARTIE_CAN_RPCACP_TX_DATA, 22)
                                     + Shl(5, 14) + Shl(1, 8) + 7, <<1, 2>>) }) : BusNoise(n, f)
    \/ Disconnect
    \/ Connect

SpecRPC == InitRPC /\ [][NextRPC]_vars

(***************************************************************************)
(* artie_can_psacp.c                                                       *)
(***************************************************************************)
\* Variant of psacp_build_can_id that uses the high-priority tag for both
\* bands
psacp_build_can_id_AlwaysHigh(high_priority, frame_type, priority, sender_addr, topic) ==
    Shl(ARTIE_CAN_PROTOCOL_PSACP_HIGH, 26)
    + Shl(Low(frame_type, 4), 22)
    + Shl(Low(priority, 2), 20)
    + Shl(Low(sender_addr, 6), 14)
    + Shl(Low(topic, 8), 6)
    + 63

\* Variant of psacp_build_can_id with the tags of the two bands exchanged
psacp_build_can_id_BandsSwapped(high_priority, frame_type, priority, sender_addr, topic) ==
    Shl(IF high_priority THEN ARTIE_CAN_PROTOCOL_PSACP_LOW
                         ELSE ARTIE_CAN_PROTOCOL_PSACP_HIGH, 26)
    + Shl(Low(frame_type, 4), 22)
    + Shl(Low(priority, 2), 20)
    + Shl(Low(sender_addr, 6), 14)
    + Shl(Low(topic, 8), 6)
    + 63

psacp_build_can_id(high_priority, frame_type, priority, sender_addr, topic) ==
    Shl(IF high_priority THEN ARTIE_CAN_PROTOCOL_PSACP_HIGH
                         ELSE ARTIE_CAN_PROTOCOL_PSACP_LOW, 26)
    + Shl(Low(frame_type, 4), 22)
    + Shl(Low(priority, 2), 20)
    + Shl(Low(sender_addr, 6), 14)
    + Shl(Low(topic, 8), 6)
    + 63

PsMsg0 ==
    [priority |-> 0, sender_addr |-> 0, topic |-> 0, high_priority |-> FALSE,
     frame_type |-> 0, crc16 |-> 0, payload |-> <<>>, payload_len |-> 0]

\* A message structure of a caller that holds an earlier message
PsMsgOld ==
    [priority |-> 2, sender_addr |-> 9, topic |-> 9, high_priority |-> FALSE,
     frame_type |-> ARTIE_CAN_PSACP_PUB, crc16 |-> 9, payload |-> <<9, 9, 9, 9, 9, 9>>,
     payload_len |-> 6]

\* Variant of psacp_parse_can_id that reads six bits of the topic
psacp_parse_can_id_Topic6(can_id, msg) ==
    [msg EXCEPT !.high_priority = Low(Shr(can_id, 26), 3) = ARTIE_CAN_PROTOCOL_PSACP_HIGH,
                !.frame_type = Low(Shr(can_id, 22), 4),
                !.priority = Low(Shr(can_id, 20), 2),
                !.sender_addr = Low(Shr(can_id, 14), 6),
                !.topic = Low(Shr(can_id, 6), 6)]

\* msg after psacp_parse_can_id(can_id, msg)
psacp_parse_can_id(can_id, msg) ==
    [msg EXCEPT !.high_priority = Low(Shr(can_id, 26), 3) = ARTIE_CAN_PROTOCOL_PSACP_HIGH,
                !.frame_type = Low(Shr(can_id, 22), 4),
                !.priority = Low(Shr(can_id, 20), 2),
                !.sender_addr = Low(Shr(can_id, 14), 6),
                !.topic = Low(Shr(can_id, 6), 8)]

PsArgs(topic, priority, high_priority, payload) ==
    [topic |-> topic, priority |-> priority, high_priority |-> high_priority,
     payload |-> payload]

\* Variant of PsStuffed that goes on when artie_can_byte_stuff has failed
PsStuffed_ResultIgnored(payload) ==
    [rc |-> 0, out |-> IF Len(payload) > 0
                         THEN artie_can_byte_stuff(payload, ARTIE_CAN_MAX_STUFFED_PAYLOAD).out
                         ELSE <<>>]

\* The stuffed payload of publish (lines 76-86): a payload of length 0 is
\* not handed to artie_can_byte_stuff
PsStuffed(payload) ==
    IF Len(payload) > 0
      THEN artie_can_byte_stuff(payload, ARTIE_CAN_MAX_STUFFED_PAYLOAD)
      ELSE [rc |-> 0, out |-> <<>>]

\* The while loop of publish (lines 123-141) from data_offset on: the DATA
\* frames handed to the transport when every send succeeds
RECURSIVE PsDataFrames(_, _, _)
PsDataFrames(stuffed, data_offset, can_id) ==
    IF data_offset < Len(stuffed)
      THEN LET remaining == Len(stuffed) - data_offset
               chunk_size == IF remaining > ARTIE_CAN_MAX_DATA_SIZE
                               THEN ARTIE_CAN_MAX_DATA_SIZE ELSE remaining
           IN <<Frame(can_id, Bytes(stuffed, data_offset, chunk_size))>>
              \o PsDataFrames(stuffed, data_offset + chunk_size, can_id)
      ELSE <<>>

\* The frames publish hands to the transport when every send succeeds
PsPublishFrames(addr, a, stuffed) ==
    LET crc == artie_can_crc16(stuffed)
        hdr == <<Low(Shr(crc, 8), 8), Low(crc, 8)>>
        pub == psacp_build_can_id(a.high_priority, ARTIE_CAN_PSACP_PUB, a.priority,
                                  addr, a.topic)
        frame_data_space == ARTIE_CAN_MAX_DATA_SIZE - 2
    IN IF Len(stuffed) <= frame_data_space
         THEN <<Frame(pub, hdr \o stuffed)>>
         ELSE <<Frame(pub, hdr \o Bytes(stuffed, 0, frame_data_space))>>
              \o PsDataFrames(stuffed, frame_data_space,
                              psacp_build_can_id(a.high_priority, ARTIE_CAN_PSACP_DATA,
                                                 a.priority, addr, a.topic))

\* artie_can_psacp_receive once the transport has returned frame f, the
\* caller's structure holding cur: [rc, msg]
PsOnFrame(f, cur) ==
    IF artie_can_get_protocol(f) \notin {ARTIE_CAN_PROTOCOL_PSACP_HIGH,
                                         ARTIE_CAN_PROTOCOL_PSACP_LOW}
      THEN [rc |-> -1, msg |-> cur]
      ELSE
        LET m == psacp_parse_can_id(f.can_id, cur)
        IN IF m.frame_type = ARTIE_CAN_PSACP_PUB
             THEN IF f.dlc < 2
                    THEN [rc |-> -1, msg |-> m]
                    ELSE
                      LET h == [m EXCEPT !.crc16 = Shl(f.data[1], 8) + f.data[2]]
                          stuffed_data == Bytes(f.data, 2, f.dlc - 2)
                          u == artie_can_byte_unstuff(stuffed_data,
                                                      ARTIE_CAN_MAX_PUBSUB_PAYLOAD)
                      IN IF Len(stuffed_data) > 0
                           THEN IF u.rc # 0
                                  THEN [rc |-> u.rc,
                                        msg |-> [h EXCEPT !.payload = Overwrite(@, u.out)]]
                                  ELSE [rc |-> 0,
                                        msg |-> [h EXCEPT !.payload = Overwrite(@, u.out),
                                                          !.payload_len = Len(u.out)]]
                           ELSE [rc |-> 0, msg |-> [h EXCEPT !.payload_len = 0]]
             ELSE [rc |-> -1, msg |-> m]


PsOp(name, pc, a, timeout_ms, res, out, log) ==
    [name |-> name, pc |-> pc, a |-> a, timeout_ms |-> timeout_ms, res |-> res,
     out |-> out, log |-> log]


InitPS ==
    /\ node_address = [n \in Node |-> IF n = "A" THEN 1 ELSE 2]
    /\ link = [n \in Node |-> <<>>]
    /\ up = TRUE
    /\ op = [n \in Node |-> PsOp("none", "idle", (PsArgs(0, 0, FALSE, <<>>)), 0, 0, PsMsg0, <<>>)]
    /\ seed = [n \in Node |-> 1]
    /\ events = 0

\* artie_can_psacp_publish(ctx, topic, priority, high_priority, payload,
\* payload_len)
PsPublish(n, a) ==
    /\ CanCall(n)
    /\ events' = events + 1
    /\ LET st == PsStuffed(a.payload)
           frames == PsPublishFrames(node_address[n], a, st.out)
       IN IF st.rc # 0
            THEN /\ op' = [op EXCEPT ![n] = PsOp("ps_publish", "done", a, 0, st.rc,
                                                 PsMsg0, <<>>)]
                 /\ link' = link
            ELSE /\ op' = [op EXCEPT ![n] = PsOp("ps_publish", "done", a, 0, TransportSend,
                                                 PsMsg0, SendLog(frames))]
                 /\ link' = DeliverAll(n, frames)
    /\ UNCHANGED <<node_address, up, seed>>

\* artie_can_psacp_receive(ctx, msg, timeout_ms) up to the transport's receive
PsReceiveCall(n, timeout_ms) ==
    /\ CanCall(n)
    /\ events' = events + 1
    /\ op' = [op EXCEPT ![n] = PsOp("ps_receive", "recv", (PsArgs(0, 0, FALSE, <<>>)), timeout_ms, 0,
                                    PsMsgOld, <<>>)]
    /\ UNCHANGED <<node_address, link, up, seed>>

\* The transport's receive returns the oldest frame in flight to n
PsTakeFrame(n) ==
    /\ op[n].pc = "recv"
    /\ up
    /\ link[n] # <<>>
    /\ LET f == Head(link[n])
           x == PsOnFrame(f, op[n].out)
       IN op' = [op EXCEPT ![n] =
                   [@ EXCEPT !.pc = "done", !.res = x.rc, !.out = x.msg,
                             !.log = Append(@, RecvEv(f, 0, op[n].timeout_ms))]]
    /\ link' = [link EXCEPT ![n] = Tail(@)]
    /\ UNCHANGED <<node_address, up, seed, events>>

\* The transport's receive returns without a frame
PsNoFrame(n) ==
    /\ op[n].pc = "recv"
    /\ ~up \/ link[n] = <<>>
    /\ op' = [op EXCEPT ![n] =
                [@ EXCEPT !.pc = "done", !.res = TransportNoFrame,
                          !.log = Append(@, RecvEv(NoFrame, TransportNoFrame,
                                                   op[n].timeout_ms))]]
    /\ UNCHANGED <<node_address, link, up, seed, events>>

\* Frames of other nodes of the bus: a PS DATA frame and an RT MSG
\* Publishes of every payload length and of a payload that takes several
\* DATA frames on one topic, and publishes on the first and the last topic
\* with the other arguments varied
NextPS ==
    \/ \E a \in ({ PsArgs(66, 1, TRUE, Payload(len)) : len \in (0..MaxPayloadLen) \cup {MaxPayloadLen + 9} }
                 \cup { PsArgs(tp[1], tp[2], hp, Payload(len)) :
                          tp \in {<<0, 0>>, <<255, 3>>}, hp \in BOOLEAN, len \in {4, 7} }) : PsPublish("A", a)
    \/ \E t \in {100} : PsReceiveCall("B", t)
    \/ PsTakeFrame("B")
    \/ PsNoFrame("B")
    \/ \E f \in ({ Frame(Shl(ARTIE_CAN_PROTOCOL_PSACP_LOW, 26) + Shl(ARTIE_CAN_PSACP_DATA, 22)
                         + Shl(5, 14) + Shl(66, 6) + 63, <<3, 4, 255>>),
                   Frame(Shl(1, 25) + Shl(5, 16) + Shl(1, 10) + 1023, <<1>>) }) : BusNoise("B", f)
    \/ Disconnect
    \/ Connect

SpecPS == InitPS /\ [][NextPS]_vars

(***************************************************************************)
(* artie_can_bwacp.c                                                       *)
(***************************************************************************)
bwacp_build_can_id(frame_type, priority, sender_addr, target_addr, class_mask, bit1, bit0) ==
    Shl(ARTIE_CAN_PROTOCOL_BWACP, 26)
    + Shl(Low(frame_type, 4), 22)
    + Shl(Low(priority, 2), 20)
    + Shl(Low(sender_addr, 6), 14)
    + Shl(Low(target_addr, 6), 8)
    + Shl(Low(class_mask, 6), 2)
    + (IF bit1 THEN 2 ELSE 0)
    + (IF bit0 THEN 1 ELSE 0)

BwMsg0 ==
    [priority |-> 0, sender_addr |-> 0, target_addr |-> 0, class_mask |-> 0,
     frame_type |-> 0, is_repeat |-> FALSE, parity |-> FALSE, crc24 |-> 0,
     address |-> U32(0, 0), payload |-> <<>>, payload_len |-> 0]

\* A message structure of a caller that holds an earlier message
BwMsgOld ==
    [priority |-> 2, sender_addr |-> 9, target_addr |-> 9, class_mask |-> 9,
     frame_type |-> ARTIE_CAN_BWACP_DATA, is_repeat |-> TRUE, parity |-> TRUE,
     crc24 |-> 9, address |-> U32(9, 9), payload |-> <<9, 9, 9, 9, 9, 9, 9, 9, 9>>,
     payload_len |-> 9]

\* Variant of bwacp_parse_can_id that reads the two low bits into each
\* other's field
bwacp_parse_can_id_AuxSwapped(can_id, msg) ==
    [msg EXCEPT !.frame_type = Low(Shr(can_id, 22), 4),
                !.priority = Low(Shr(can_id, 20), 2),
                !.sender_addr = Low(Shr(can_id, 14), 6),
                !.target_addr = Low(Shr(can_id, 8), 6),
                !.class_mask = Low(Shr(can_id, 2), 6),
                !.is_repeat = Bit(can_id, 0) = 1,
                !.parity = Bit(can_id, 1) = 1]

\* msg after bwacp_parse_can_id(can_id, msg)
bwacp_parse_can_id(can_id, msg) ==
    [msg EXCEPT !.frame_type = Low(Shr(can_id, 22), 4),
                !.priority = Low(Shr(can_id, 20), 2),
                !.sender_addr = Low(Shr(can_id, 14), 6),
                !.target_addr = Low(Shr(can_id, 8), 6),
                !.class_mask = Low(Shr(can_id, 2), 6),
                !.is_repeat = Bit(can_id, 1) = 1,
                !.parity = Bit(can_id, 0) = 1]

\* flag is interrupt for send_ready and repeat_all for send_repeat
BwArgs(target_addr, class_mask, priority, address, payload, flag) ==
    [target_addr |-> target_addr, class_mask |-> class_mask, priority |-> priority,
     address |-> address, payload |-> payload, flag |-> flag]

\* The stuffed payload of send_ready (lines 85-95)
BwStuffed(payload) ==
    IF Len(payload) > 0
      THEN artie_can_byte_stuff(payload, ARTIE_CAN_MAX_STUFFED_PAYLOAD)
      ELSE [rc |-> 0, out |-> <<>>]

\* The four bytes of address, most significant first (lines 99-102)
BwAddressBytes(address) ==
    <<Low(Shr(address.hi, 8), 8), Low(address.hi, 8),
      Low(Shr(address.lo, 8), 8), Low(address.lo, 8)>>

\* Variant of BwReadyData whose CRC-24 covers the address only
BwReadyData_CrcOfAddress(address, stuffed) ==
    LET crc24 == artie_can_crc24(BwAddressBytes(address))
    IN <<Low(Shr(crc24, 16), 8), Low(Shr(crc24, 8), 8), Low(crc24, 8)>>
       \o BwAddressBytes(address)
       \o (IF Len(stuffed) > 0 THEN <<stuffed[1]>> ELSE <<>>)

\* The data bytes of the READY frame of send_ready (lines 97-126)
BwReadyData(address, stuffed) ==
    LET crc24 == artie_can_crc24(BwAddressBytes(address) \o stuffed)
    IN <<Low(Shr(crc24, 16), 8), Low(Shr(crc24, 8), 8), Low(crc24, 8)>>
       \o BwAddressBytes(address)
       \o (IF Len(stuffed) > 0 THEN <<stuffed[1]>> ELSE <<>>)

\* Variant of BwDataFrames whose parity is never toggled
RECURSIVE BwDataFrames_NoToggle(_, _, _, _, _)
BwDataFrames_NoToggle(addr, a, payload, offset, parity) ==
    IF offset < Len(payload)
      THEN LET chunk_size == Min(Len(payload) - offset, ARTIE_CAN_MAX_DATA_SIZE)
               can_id == bwacp_build_can_id(ARTIE_CAN_BWACP_DATA, a.priority, addr,
                                            a.target_addr, a.class_mask, FALSE, parity)
           IN <<Frame(can_id, Bytes(payload, offset, chunk_size))>>
              \o BwDataFrames_NoToggle(addr, a, payload, offset + chunk_size, parity)
      ELSE <<>>

\* The while loop of send_data (lines 167-188) from offset on: the DATA
\* frames handed to the transport when every send succeeds
RECURSIVE BwDataFrames(_, _, _, _, _)
BwDataFrames(addr, a, payload, offset, parity) ==
    IF offset < Len(payload)
      THEN LET remaining == Len(payload) - offset
               chunk_size == IF remaining > ARTIE_CAN_MAX_DATA_SIZE
                               THEN ARTIE_CAN_MAX_DATA_SIZE ELSE remaining
               can_id == bwacp_build_can_id(ARTIE_CAN_BWACP_DATA, a.priority, addr,
                                            a.target_addr, a.class_mask, FALSE, parity)
           IN <<Frame(can_id, Bytes(payload, offset, chunk_size))>>
              \o BwDataFrames(addr, a, payload, offset + chunk_size, ~parity)
      ELSE <<>>

\* The frames send_ready hands to the transport when every send succeeds:
\* the READY frame, then those of its call of send_data (lines 143-146)
BwReadyFrames(addr, a, stuffed) ==
    <<Frame(bwacp_build_can_id(ARTIE_CAN_BWACP_READY, a.priority, addr, a.target_addr,
                               a.class_mask, a.flag, TRUE),
            BwReadyData(a.address, stuffed))>>
    \o (IF Len(stuffed) > 1
          THEN BwDataFrames(addr, a, Bytes(stuffed, 1, Len(stuffed) - 1), 0, FALSE)
          ELSE <<>>)

\* artie_can_bwacp_receive once the transport has returned frame f, the
\* caller's structure holding cur: [rc, msg]
BwOnFrame(f, cur) ==
    IF artie_can_get_protocol(f) # ARTIE_CAN_PROTOCOL_BWACP
      THEN [rc |-> -1, msg |-> cur]
      ELSE
        LET m == bwacp_parse_can_id(f.can_id, cur)
        IN IF m.frame_type = ARTIE_CAN_BWACP_REPEAT
             THEN [rc |-> 0, msg |-> [m EXCEPT !.payload_len = 0]]
           ELSE IF m.frame_type = ARTIE_CAN_BWACP_READY
             THEN IF f.dlc < 7
                    THEN [rc |-> -1, msg |-> m]
                    ELSE
                      LET h == [m EXCEPT
                                  !.crc24 = Shl(f.data[1], 16) + Shl(f.data[2], 8) + f.data[3],
                                  !.address = U32(Shl(f.data[4], 8) + f.data[5],
                                                  Shl(f.data[6], 8) + f.data[7])]
                      IN IF f.dlc > 7
                           THEN [rc |-> 0,
                                 msg |-> [h EXCEPT !.payload = Overwrite(@, <<f.data[8]>>),
                                                   !.payload_len = 1]]
                           ELSE [rc |-> 0, msg |-> [h EXCEPT !.payload_len = 0]]
           ELSE IF m.frame_type = ARTIE_CAN_BWACP_DATA
             THEN [rc |-> 0, msg |-> [m EXCEPT !.payload = Overwrite(@, f.data),
                                               !.payload_len = f.dlc]]
           ELSE [rc |-> -1, msg |-> m]


BwOp(name, pc, a, timeout_ms, res, out, log) ==
    [name |-> name, pc |-> pc, a |-> a, timeout_ms |-> timeout_ms, res |-> res,
     out |-> out, log |-> log]


InitBW ==
    /\ node_address = [n \in Node |-> IF n = "A" THEN 1 ELSE 2]
    /\ link = [n \in Node |-> <<>>]
    /\ up = TRUE
    /\ op = [n \in Node |-> BwOp("none", "idle", (BwArgs(0, 0, 0, U32(0, 0), <<>>, FALSE)), 0, 0, BwMsg0, <<>>)]
    /\ seed = [n \in Node |-> 1]
    /\ events = 0

\* A call that hands frames to the transport in order, stops at the first
\* send that fails and returns its result, else 0
BwSendAll(n, name, a, frames) ==
    /\ op' = [op EXCEPT ![n] =
                IF frames = <<>>
                  THEN BwOp(name, "done", a, 0, 0, BwMsg0, <<>>)
                  ELSE BwOp(name, "done", a, 0, TransportSend, BwMsg0, SendLog(frames))]
    /\ link' = IF frames = <<>> THEN link ELSE DeliverAll(n, frames)

\* artie_can_bwacp_send_ready(ctx, target_addr, class_mask, priority,
\* address, payload, payload_len, interrupt)
BwSendReady(n, a) ==
    /\ CanCall(n)
    /\ events' = events + 1
    /\ LET st == BwStuffed(a.payload)
       IN IF st.rc # 0
            THEN /\ op' = [op EXCEPT ![n] = BwOp("bw_send_ready", "done", a, 0, st.rc,
                                                 BwMsg0, <<>>)]
                 /\ link' = link
            ELSE BwSendAll(n, "bw_send_ready", a, BwReadyFrames(node_address[n], a, st.out))
    /\ UNCHANGED <<node_address, up, seed>>

\* artie_can_bwacp_send_data(ctx, target_addr, class_mask, priority, payload,
\* payload_len)
BwSendData(n, a) ==
    /\ CanCall(n)
    /\ events' = events + 1
    /\ BwSendAll(n, "bw_send_data", a, BwDataFrames(node_address[n], a, a.payload, 0, FALSE))
    /\ UNCHANGED <<node_address, up, seed>>

\* artie_can_bwacp_send_repeat(ctx, target_addr, priority, repeat_all)
BwSendRepeat(n, a) ==
    /\ CanCall(n)
    /\ events' = events + 1
    /\ BwSendAll(n, "bw_send_repeat", a,
                 <<Frame(bwacp_build_can_id(ARTIE_CAN_BWACP_REPEAT, a.priority,
                                            node_address[n], a.target_addr, 0, a.flag,
                                            FALSE),
                         <<>>)>>)
    /\ UNCHANGED <<node_address, up, seed>>

\* artie_can_bwacp_receive(ctx, msg, timeout_ms) up to the transport's receive
BwReceiveCall(n, timeout_ms) ==
    /\ CanCall(n)
    /\ events' = events + 1
    /\ op' = [op EXCEPT ![n] = BwOp("bw_receive", "recv", (BwArgs(0, 0, 0, U32(0, 0), <<>>, FALSE)), timeout_ms, 0,
                                    BwMsgOld, <<>>)]
    /\ UNCHANGED <<node_address, link, up, seed>>

\* The transport's receive returns the oldest frame in flight to n
BwTakeFrame(n) ==
    /\ op[n].pc = "recv"
    /\ up
    /\ link[n] # <<>>
    /\ LET f == Head(link[n])
           x == BwOnFrame(f, op[n].out)
       IN op' = [op EXCEPT ![n] =
                   [@ EXCEPT !.pc = "done", !.res = x.rc, !.out = x.msg,
                             !.log = Append(@, RecvEv(f, 0, op[n].timeout_ms))]]
    /\ link' = [link EXCEPT ![n] = Tail(@)]
    /\ UNCHANGED <<node_address, up, seed, events>>

\* The transport's receive returns without a frame
BwNoFrame(n) ==
    /\ op[n].pc = "recv"
    /\ ~up \/ link[n] = <<>>
    /\ op' = [op EXCEPT ![n] =
                [@ EXCEPT !.pc = "done", !.res = TransportNoFrame,
                          !.log = Append(@, RecvEv(NoFrame, TransportNoFrame,
                                                   op[n].timeout_ms))]]
    /\ UNCHANGED <<node_address, link, up, seed, events>>

\* 0xCAFEBABE
\* Frames of other nodes of the bus: a READY frame of six bytes and an RT MSG
\* Block writes of every payload length to the peer, and block writes of no
\* and of one byte with the other arguments varied
NextBW ==
    \/ \E a \in ({ BwArgs(node_address[Peer("A")], 1, 1, (U32(51966, 47806)), Payload(len), FALSE) :
                     len \in 0..MaxPayloadLen }
                 \cup { BwArgs(63, cm, 3, U32(0, 1), Payload(len), TRUE) : cm \in {0, 255}, len \in {0, 1} }) : BwSendReady("A", a)
    \/ \E a \in ({ BwArgs(node_address[Peer("A")], 1, 1, U32(0, 0), Payload(len), FALSE) : len \in {0, 1, 8, 9, 17} }
                 \cup { BwArgs(63, 255, 3, U32(0, 0), Payload(16), FALSE) }) : BwSendData("A", a)
    \/ \E a \in ({ BwArgs(ta, 0, pr, U32(0, 0), <<>>, ra) :
                     ta \in {node_address[Peer("B")], 63}, pr \in {1, 3}, ra \in BOOLEAN }) : BwSendRepeat("B", a)
    \/ \E t \in {100} : BwReceiveCall("B", t)
    \/ BwTakeFrame("B")
    \/ BwNoFrame("B")
    \/ \E f \in ({ Frame(Shl(ARTIE_CAN_PROTOCOL_BWACP, 26) + Shl(ARTIE_CAN_BWACP_READY, 22)
                         + Shl(5, 14) + Shl(2, 8) + 1, <<1, 2, 3, 4, 5, 6>>),
                   Frame(Shl(1, 25) + Shl(5, 16) + Shl(1, 10) + 1023, <<1>>) }) : BusNoise("B", f)
    \/ Disconnect
    \/ Connect

SpecBW == InitBW /\ [][NextBW]_vars

(***************************************************************************)
(* The payload caps of the four families: each context makes one call, A   *)
(* an RT send or a PS publish, B a block write, an RPC call or an RPC      *)
(* respond, with payloads below, at and above the caps.                    *)
(***************************************************************************)
\* len bytes that run through every byte value
LongPayload(len) == [i \in 1..len |-> i % 256]

\* The shortest payloads whose stuffed form (the payload, a marker per run
\* of 254 bytes, the terminator) does not fit 1024 bytes (5 markers) and
\* 2048 bytes (9 markers)
OverStuffedCap == LongPayload(ARTIE_CAN_MAX_STUFFED_PAYLOAD - 9)

InitCaps ==
    /\ node_address = [n \in Node |-> IF n = "A" THEN 1 ELSE 2]
    /\ link = [n \in Node |-> <<>>]
    /\ up = TRUE
    /\ op = [n \in Node |-> Idle]
    /\ seed = [n \in Node |-> 1]
    /\ events = 0

\* Context n has made no call yet
FirstCall(n) == op[n].pc = "idle"

\* Payloads of calls and responses whose stuffed form has at most 1024
\* bytes, 1025 bytes, and more than 2048 bytes
\* RT messages of no, eight and nine bytes; publishes and block writes of
\* payloads up to the shortest that does not fit; calls and responses
NextCaps ==
    \/ \E len \in {0, 8, 9} :
         /\ FirstCall("A")
         /\ RtSendCall("A", RtMsg(ARTIE_CAN_RTACP_MSG, 0, node_address["A"], node_address["B"],
                                  Bytes((<<1, 2, 3, 4, 5, 6, 7, 8, 9>>), 0, Min(len, ARTIE_CAN_MAX_DATA_SIZE)), len),
                       FALSE)
    \/ \E hp \in BOOLEAN, p \in {<<>>, Payload(1), Payload(7), OverStuffedCap} :
         FirstCall("A") /\ PsPublish("A", PsArgs(66, 1, hp, p))
    \/ \E p \in {<<>>, Payload(1), Payload(9), OverStuffedCap} :
         /\ FirstCall("B")
         /\ BwSendReady("B", BwArgs(node_address["A"], 1, 1, (U32(51966, 47806)), p, FALSE))
    \/ \E p \in ({<<>>, Payload(3), Payload(6), LongPayload(ARTIE_CAN_MAX_RPC_PAYLOAD - 5), OverStuffedCap}) :
         FirstCall("B") /\ RpcCall("B", RpcArgs(node_address["A"], 1, TRUE, 66, p, 0, 0))
    \/ \E p \in ({<<>>, Payload(3), Payload(6), LongPayload(ARTIE_CAN_MAX_RPC_PAYLOAD - 5), OverStuffedCap}) :
         FirstCall("B") /\ RpcRespond("B", RpcArgs(node_address["A"], 1, FALSE, 66, p, 7, 0))
    \/ RpcTakeFrame("B")
    \/ RpcNoFrame("B")
    \/ Disconnect
    \/ Connect

SpecCaps == InitCaps /\ [][NextCaps]_vars

(***************************************************************************)
(* The receive entry points of the four families on one bus: other nodes   *)
(* put frames of every protocol tag on the links, A calls the RT and RPC   *)
(* receives and wait_response, B the PS and BW receives.                   *)
(***************************************************************************)

\* The call of n is one of the named entry points
Calling(n, names) == op[n].name \in names

\* The frames of other nodes: every 3-bit protocol tag with identifier bits
\* 25..0 and data of three shapes.  Bits 25..22 are 1 (RPC NACK, PS PUB, BW
\* REPEAT), 3 (RPC START_RETURN, PS DATA, BW READY) and 7 (BW DATA); under
\* the RT layout each is an ACK.
NextRecv ==
    \/ \E n \in Node : \E f \in ({ Frame(Shl(tag, 26) + Shl(sh[1], 22) + Shl(5, 14) + Shl(1, 8) + 255, sh[2]) :
                                     tag \in 0..7,
                                     sh \in { <<1, <<184, 183, 1, 1, 255>>>>, <<3, <<1, 2, 3, 4, 5, 6, 7, 8>>>>,
                                              <<7, <<1, 2>>>> } }) : BusNoise(n, f)
    \/ \E t \in RpcTimeouts : RtReceiveCall("A", t)
    \/ Calling("A", {"rt_receive"}) /\ RtTakeFrame("A")
    \/ Calling("A", {"rt_receive"}) /\ RtNoFrame("A")
    \/ \E t \in RpcTimeouts : RpcReceiveCall("A", t)
    \/ \E t \in RpcTimeouts : \E max_len \in ({0, 2, 4}) : RpcWaitResponseCall("A", max_len, t)
    \/ Calling("A", {"rpc_receive", "rpc_wait_response"}) /\ RpcRecvTakeFrame("A")
    \/ Calling("A", {"rpc_receive", "rpc_wait_response"}) /\ RpcRecvNoFrame("A")
    \/ \E t \in RpcTimeouts : PsReceiveCall("B", t)
    \/ Calling("B", {"ps_receive"}) /\ PsTakeFrame("B")
    \/ Calling("B", {"ps_receive"}) /\ PsNoFrame("B")
    \/ \E t \in RpcTimeouts : BwReceiveCall("B", t)
    \/ Calling("B", {"bw_receive"}) /\ BwTakeFrame("B")
    \/ Calling("B", {"bw_receive"}) /\ BwNoFrame("B")
    \/ Disconnect
    \/ Connect

SpecRecv == InitCaps /\ [][NextRecv]_vars

(***************************************************************************)
(* The identifier functions of the four families: a context builds the     *)
(* identifier of in-range field values and parses it.  The fields range    *)
(* over all their values one or two at a time, the others taking their     *)
(* least, a middle and their greatest value.                               *)
(***************************************************************************)
SomeAddresses == {0, 21, ARTIE_CAN_MAX_ADDRESS}
SomeBytes == {0, 165, 255}

\* Sender and target: every value of one with some values of the other
AddressPairs ==
    ((0..ARTIE_CAN_MAX_ADDRESS) \X SomeAddresses) \cup (SomeAddresses \X (0..ARTIE_CAN_MAX_ADDRESS))

RtIdFields ==
    { [frame_type |-> ft, priority |-> pr, sender_addr |-> st[1], target_addr |-> st[2]] :
        ft \in ({ARTIE_CAN_RTACP_ACK, ARTIE_CAN_RTACP_MSG}), pr \in (0..3), st \in AddressPairs }

RpcIdFields ==
    { [frame_type |-> ft, priority |-> pr, sender_addr |-> st[1], target_addr |-> st[2],
       random_value |-> rv] :
        ft \in (ARTIE_CAN_RPCACP_ACK..ARTIE_CAN_RPCACP_RX_DATA), pr \in (0..3), st \in SomeAddresses \X SomeAddresses,
        rv \in SomeBytes }
    \cup { [frame_type |-> ARTIE_CAN_RPCACP_START_RPC, priority |-> 1, sender_addr |-> st[1],
            target_addr |-> st[2], random_value |-> rv] :
             st \in AddressPairs, rv \in SomeBytes }
    \cup { [frame_type |-> ARTIE_CAN_RPCACP_RX_DATA, priority |-> 2, sender_addr |-> sa,
            target_addr |-> ARTIE_CAN_MAX_ADDRESS, random_value |-> rv] :
             sa \in SomeAddresses, rv \in (0..255) }

PsIdFields ==
    { [high_priority |-> hp, frame_type |-> ft, priority |-> pr, sender_addr |-> sa,
       topic |-> tp] :
        hp \in BOOLEAN, ft \in {ARTIE_CAN_PSACP_PUB, ARTIE_CAN_PSACP_DATA}, pr \in (0..3), sa \in SomeAddresses,
        tp \in SomeBytes }
    \cup { [high_priority |-> hp, frame_type |-> ARTIE_CAN_PSACP_PUB, priority |-> 1,
            sender_addr |-> sa, topic |-> tp] :
             hp \in BOOLEAN, sa \in SomeAddresses, tp \in (0..255) }
    \cup { [high_priority |-> hp, frame_type |-> ARTIE_CAN_PSACP_DATA, priority |-> 2,
            sender_addr |-> sa, topic |-> tp] :
             hp \in BOOLEAN, sa \in (0..ARTIE_CAN_MAX_ADDRESS), tp \in SomeBytes }

BwIdFields ==
    { [frame_type |-> ft, priority |-> pr, sender_addr |-> st[1], target_addr |-> st[2],
       class_mask |-> cm, bit1 |-> b1, bit0 |-> b0] :
        ft \in {ARTIE_CAN_BWACP_REPEAT, ARTIE_CAN_BWACP_READY, ARTIE_CAN_BWACP_DATA}, pr \in (0..3), st \in SomeAddresses \X SomeAddresses,
        cm \in {0, 21, 63}, b1 \in BOOLEAN, b0 \in BOOLEAN }
    \cup { [frame_type |-> ARTIE_CAN_BWACP_READY, priority |-> 1, sender_addr |-> st[1],
            target_addr |-> st[2], class_mask |-> 21, bit1 |-> b, bit0 |-> ~b] :
             st \in AddressPairs, b \in BOOLEAN }
    \cup { [frame_type |-> ARTIE_CAN_BWACP_DATA, priority |-> 2, sender_addr |-> sa,
            target_addr |-> ARTIE_CAN_MAX_ADDRESS, class_mask |-> cm, bit1 |-> b1,
            bit0 |-> b0] :
             sa \in SomeAddresses, cm \in (0..63), b1 \in BOOLEAN, b0 \in BOOLEAN }

\* The context n has built can_id from the fields f and parsed it into the
\* message structure out
IdDone(n, name, f, can_id, out) ==
    /\ FirstCall(n)
    /\ op' = [op EXCEPT ![n] = [name |-> name, pc |-> "done", f |-> f, can_id |-> can_id,
                               out |-> out]]
    /\ UNCHANGED <<node_address, link, up, seed, events>>

\* rtacp_parse_frame of a frame with the identifier rtacp_build_can_id(msg)
RtIdRoundTrip(n, f) ==
    LET msg == RtMsg(f.frame_type, f.priority, f.sender_addr, f.target_addr, <<>>, 0)
        can_id == rtacp_build_can_id(msg)
    IN IdDone(n, "rt_id", f, can_id, rtacp_parse_frame(Frame(can_id, <<>>)).msg)

\* rpcacp_parse_can_id of rpcacp_build_can_id(...)
RpcIdRoundTrip(n, f) ==
    LET can_id == rpcacp_build_can_id(f.frame_type, f.priority, f.sender_addr,
                                      f.target_addr, f.random_value)
    IN IdDone(n, "rpc_id", f, can_id, rpcacp_parse_can_id(can_id, RpcMsgOld))

\* psacp_parse_can_id of psacp_build_can_id(...)
PsIdRoundTrip(n, f) ==
    LET can_id == psacp_build_can_id(f.high_priority, f.frame_type, f.priority,
                                     f.sender_addr, f.topic)
    IN IdDone(n, "ps_id", f, can_id, psacp_parse_can_id(can_id, PsMsgOld))

\* bwacp_parse_can_id of bwacp_build_can_id(...)
BwIdRoundTrip(n, f) ==
    LET can_id == bwacp_build_can_id(f.frame_type, f.priority, f.sender_addr,
                                     f.target_addr, f.class_mask, f.bit1, f.bit0)
    IN IdDone(n, "bw_id", f, can_id, bwacp_parse_can_id(can_id, BwMsgOld))

NextId ==
    \/ \E f \in RtIdFields : RtIdRoundTrip("A", f)
    \/ \E f \in RpcIdFields : RpcIdRoundTrip("A", f)
    \/ \E f \in PsIdFields : PsIdRoundTrip("A", f)
    \/ \E f \in BwIdFields : BwIdRoundTrip("A", f)

SpecId == InitCaps /\ [][NextId]_vars

(***************************************************************************)
(* Byte stuffing: a context stuffs a byte sequence, and unstuffs the       *)
(* result or a stream it was given.                                        *)
(*   x               the bytes that were stuffed (<<>> for a given stream) *)
(*   roundtrip       the input of byte_unstuff is the output of byte_stuff *)
(*                   on x                                                  *)
(*   input, output_max_len   the arguments                                 *)
(*   rc, output, output_len  the result, the bytes written to output, and  *)
(*                   the caller's length variable                          *)
(***************************************************************************)
StuffOp(name, x, roundtrip, input, output_max_len, rc, output, output_len) ==
    [name |-> name, pc |-> "done", x |-> x, roundtrip |-> roundtrip, input |-> input,
     output_max_len |-> output_max_len, rc |-> rc, output |-> output,
     output_len |-> output_len]

\* The caller's length variable before the call
OutputLenBefore == 7777

\* Inputs of byte_stuff: lengths around one, two, three and eight runs of
\* 254 bytes and the longest (2038 bytes stuff into 2048 bytes), each as a
\* run through all byte values, all 0x00, and all 0xFF
StuffInputs ==
    LET lens == {0, 1, 2, 5, 253, 254, 255, 256, 508, 509, 762, 763, 2032, 2033, 2038, 2039,
                 2047}
    IN { LongPayload(len) : len \in lens }
       \cup { [i \in 1..len |-> b] : len \in lens, b \in {0, 255} }

\* Streams given to byte_unstuff: well-formed ones, ones with a marker
\* 0x00, ones that end within a run or without terminator, and ones with
\* bytes after the terminator
UnstuffStreams ==
    { <<255>>, <<2, 1, 2, 255>>, <<1, 0, 255>>, <<1, 255, 255>>,
      <<0>>, <<0, 255>>, <<2, 7, 8, 0, 255>>, <<2, 7, 8, 0>>,
      <<3, 1, 2>>, <<1>>, <<3, 1, 2, 3, 2, 9>>, <<254, 1, 2, 255>>,
      <<2, 1, 2>>, <<255, 0>>, <<255, 3, 1>>, <<2, 1, 2, 255, 0>> }
    \cup { <<254>> \o LongPayload(253), <<254>> \o LongPayload(254) \o <<0>>,
           <<254>> \o LongPayload(254) \o <<3, 1, 2, 3, 255>> }

\* artie_can_byte_stuff(input, input_len, output, output_max_len, output_len)
ByteStuffCall(n, input, output_max_len) ==
    /\ FirstCall(n)
    /\ LET r == artie_can_byte_stuff(input, output_max_len)
       IN op' = [op EXCEPT ![n] =
                   StuffOp("byte_stuff", input, FALSE, input, output_max_len, r.rc, r.out,
                           IF r.rc = 0 THEN Len(r.out) ELSE OutputLenBefore)]
    /\ UNCHANGED <<node_address, link, up, seed, events>>

\* artie_can_byte_unstuff(input, input_len, output, output_max_len,
\* output_len): *output_len is assigned on the two paths that return 0
ByteUnstuff(n, x, roundtrip, input, output_max_len) ==
    /\ LET r == artie_can_byte_unstuff(input, output_max_len)
       IN op' = [op EXCEPT ![n] =
                   StuffOp("byte_unstuff", x, roundtrip, input, output_max_len, r.rc,
                           r.out, IF r.rc = 0 THEN Len(r.out) ELSE OutputLenBefore)]
    /\ UNCHANGED <<node_address, link, up, seed, events>>

\* byte_unstuff of a stream the context was given
ByteUnstuffCall(n, input, output_max_len) ==
    /\ FirstCall(n)
    /\ ByteUnstuff(n, <<>>, FALSE, input, output_max_len)

\* byte_unstuff of what the byte_stuff before it has written
ByteUnstuffStuffed(n, output_max_len) ==
    /\ op[n].name = "byte_stuff"
    /\ op[n].rc = 0
    /\ ByteUnstuff(n, op[n].x, TRUE, op[n].output, output_max_len)

\* Output buffers of byte_stuff: none, one byte short of the stuffed form,
\* exact, and those of the engines; of byte_unstuff of a stuffed form: none,
\* one byte short of the original, exact, 1024 and 2048
NextStuff ==
    \/ \E input \in StuffInputs :
         LET len == Len(input)
             stuffed_len == IF len = 0 THEN 1 ELSE len + (len + 253) \div 254 + 1
         IN \E m \in {0, stuffed_len - 1, stuffed_len, ARTIE_CAN_MAX_STUFFED_PAYLOAD,
                       2 * ARTIE_CAN_MAX_STUFFED_PAYLOAD} :
              ByteStuffCall("A", input, m)
    \/ \E input \in UnstuffStreams : \E m \in {0, 1, 2, ARTIE_CAN_MAX_RPC_PAYLOAD} :
         ByteUnstuffCall("A", input, m)
    \/ /\ op["A"].name = "byte_stuff"
       /\ \E m \in {0, Len(op["A"].x) - 1, Len(op["A"].x), ARTIE_CAN_MAX_RPC_PAYLOAD,
                     ARTIE_CAN_MAX_STUFFED_PAYLOAD} \ {-1} :
            ByteUnstuffStuffed("A", m)

SpecStuff == InitCaps /\ [][NextStuff]_vars

(***************************************************************************)
(* The in-memory queue transport (ARTIE_CAN_BACKEND_MOCK).  Every context  *)
(* initialised with this backend points at the one static                  *)
(* g_mock_queue_ctx, so in the specification of the queue the variable     *)
(* link holds that structure instead of the frames in flight:              *)
(*   queue, head, tail, count   the fields of mock_queue_context_t         *)
(*   pending   history: the frames send has accepted and receive has not   *)
(*             yet returned, oldest first; no code reads it                *)
(* The queue's receive never blocks, so a call over it runs to its return  *)
(* in one step.  The contexts run in one process, one call at a time.      *)
(***************************************************************************)
\* Variant of mock_queue_init that leaves the queue as it finds it
mock_queue_init_Kept(q) == q

\* mock_queue_init(context)
mock_queue_init(q) ==
    [q EXCEPT !.head = 0, !.tail = 0, !.count = 0, !.pending = <<>>]

\* Variant of mock_queue_send that takes one frame more than the array holds
mock_queue_send_OneMore(q, frame) ==
    IF q.count >= MOCK_QUEUE_SIZE + 1
      THEN [rc |-> -1, q |-> q]
      ELSE [rc |-> 0,
            q |-> [q EXCEPT !.queue[q.tail] = frame,
                            !.tail = (q.tail + 1) % MOCK_QUEUE_SIZE,
                            !.count = q.count + 1,
                            !.pending = Append(@, frame)]]

\* mock_queue_send(context, frame): [rc, q]
mock_queue_send(q, frame) ==
    IF q.count >= MOCK_QUEUE_SIZE
      THEN [rc |-> -1, q |-> q]
      ELSE [rc |-> 0,
            q |-> [q EXCEPT !.queue[q.tail] = frame,
                            !.tail = (q.tail + 1) % MOCK_QUEUE_SIZE,
                            !.count = q.count + 1,
                            !.pending = Append(@, frame)]]

\* mock_queue_receive(context, frame, timeout_ms): [rc, q, frame]; the
\* caller's frame is not written when the queue is empty
mock_queue_receive(q, timeout_ms) ==
    IF q.count = 0
      THEN [rc |-> -1, q |-> q, frame |-> NoFrame]
      ELSE [rc |-> 0,
            q |-> [q EXCEPT !.head = (q.head + 1) % MOCK_QUEUE_SIZE,
                            !.count = q.count - 1,
                            !.pending = Tail(@)],
            frame |-> q.queue[q.head]]

\* Variant of QueueSendAll that goes on with the frames left after a send has
\* failed
RECURSIVE QueueSendAll_GoesOn(_, _, _)
QueueSendAll_GoesOn(q, frames, log) ==
    IF frames = <<>>
      THEN [rc |-> IF \E i \in 1..Len(log) : log[i].r # 0 THEN -1 ELSE 0, q |-> q, log |-> log]
      ELSE LET s == mock_queue_send(q, Head(frames))
           IN QueueSendAll_GoesOn(s.q, Tail(frames), Append(log, SendEv(Head(frames), s.rc)))

\* The send loops of call, publish, send_ready and send_data over the queue:
\* frames go to the transport in order, the first send that fails ends the
\* loop with its result.  [rc, q, log]
RECURSIVE QueueSendAll(_, _, _)
QueueSendAll(q, frames, log) ==
    IF frames = <<>>
      THEN [rc |-> 0, q |-> q, log |-> log]
      ELSE LET s == mock_queue_send(q, Head(frames))
               log1 == Append(log, SendEv(Head(frames), s.rc))
           IN IF s.rc # 0
                THEN [rc |-> s.rc, q |-> s.q, log |-> log1]
                ELSE QueueSendAll(s.q, Tail(frames), log1)

\* Variant of QueueRtReceive that gives up at a frame of another family
QueueRtReceive_NoSkip(q, addr, cur, timeout_ms, log) ==
    LET r == mock_queue_receive(q, timeout_ms)
        log1 == Append(log, RecvEv(r.frame, r.rc, timeout_ms))
        x == RtOnFrame(addr, r.frame, cur)
    IN IF r.rc # 0 \/ x.cont THEN [rc |-> -1, msg |-> cur, q |-> r.q, log |-> log1]
       ELSE IF x.ack
         THEN LET s == mock_queue_send(r.q, x.ackf)
              IN [rc |-> x.rc, msg |-> x.msg, q |-> s.q,
                  log |-> Append(log1, SendEv(x.ackf, s.rc))]
       ELSE [rc |-> x.rc, msg |-> x.msg, q |-> r.q, log |-> log1]

\* The loop of artie_can_rtacp_receive over the queue, the caller's
\* structure holding cur: [rc, msg, q, log].  The result of the send of the
\* ACK is not looked at (line 189).
RECURSIVE QueueRtReceive(_, _, _, _, _)
QueueRtReceive(q, addr, cur, timeout_ms, log) ==
    LET r == mock_queue_receive(q, timeout_ms)
        log1 == Append(log, RecvEv(r.frame, r.rc, timeout_ms))
        x == RtOnFrame(addr, r.frame, cur)
    IN IF r.rc # 0 THEN [rc |-> r.rc, msg |-> cur, q |-> r.q, log |-> log1]
       ELSE IF x.cont THEN QueueRtReceive(r.q, addr, x.msg, timeout_ms, log1)
       ELSE IF x.ack
         THEN LET s == mock_queue_send(r.q, x.ackf)
              IN [rc |-> x.rc, msg |-> x.msg, q |-> s.q,
                  log |-> Append(log1, SendEv(x.ackf, s.rc))]
       ELSE [rc |-> x.rc, msg |-> x.msg, q |-> r.q, log |-> log1]

\* The frame the application hands to the transport while the next free
\* slot is slot i: frames of the four families in turn, among them a MSG to
\* each context and an ACK from node 2 to node 1, each carrying the number
\* of its slot
FillFrame(i) ==
    LET k == i % 8
    IN IF k = 2 THEN RtFrame(RtMsg(ARTIE_CAN_RTACP_MSG, 0, 2, 1, <<i>>, 1))
       ELSE IF k = 5 THEN RtFrame(RtAckFor(2, RtMsg(ARTIE_CAN_RTACP_MSG, 0, 1, 2, <<i>>, 1)))
       ELSE IF k = 6 THEN RtFrame(RtMsg(ARTIE_CAN_RTACP_MSG, 0, 1, 2, <<i>>, 1))
       ELSE IF k \in {0, 4}
         THEN Frame(psacp_build_can_id(FALSE, ARTIE_CAN_PSACP_PUB, 0, 3, 66), <<0, 0, i>>)
       ELSE IF k \in {1, 7}
         THEN Frame(rpcacp_build_can_id(ARTIE_CAN_RPCACP_ACK, 0, 3, 1, 7), <<>>)
       ELSE Frame(bwacp_build_can_id(ARTIE_CAN_BWACP_DATA, 0, 3, 1, 0, FALSE, FALSE), <<i>>)

\* Context n is initialised and no engine call has been made yet: a run is
\* transport calls of the application, then one engine call
QueueReady(n) ==
    /\ op[n].name \in {"init", "queue_send", "queue_receive"}
    /\ \A m \in Node : op[m].name \in {"none", "init", "queue_send", "queue_receive"}

InitQueue ==
    /\ node_address = [n \in Node |-> 0]
    /\ link = [queue |-> [i \in 0..(MOCK_QUEUE_SIZE - 1) |-> NoFrame],
               head |-> 0, tail |-> 0, count |-> 0, pending |-> <<>>]
    /\ up = TRUE
    /\ op = [n \in Node |-> Idle]
    /\ seed = [n \in Node |-> 1]
    /\ events = 0

\* artie_can_init(ctx, node_address, ARTIE_CAN_BACKEND_MOCK), the first call
\* on context n
MockInit(n, addr) ==
    /\ op[n].name = "none"
    /\ \A m \in Node : op[m].name \in {"none", "init", "queue_send", "queue_receive"}
    /\ IF addr > ARTIE_CAN_MAX_ADDRESS
         THEN UNCHANGED <<node_address, link, op>>
         ELSE /\ node_address' = [node_address EXCEPT ![n] = addr]
              /\ link' = mock_queue_init(link)
              /\ op' = [op EXCEPT ![n] = [Idle EXCEPT !.name = "init", !.pc = "done"]]
    /\ UNCHANGED <<up, seed, events>>

\* ctx->backend.send(ctx->backend.context, frame) of context n
MockSend(n, frame) ==
    /\ QueueReady(n)
    /\ LET s == mock_queue_send(link, frame)
       IN /\ link' = s.q
          /\ op' = [op EXCEPT ![n] =
                      [Idle EXCEPT !.name = "queue_send", !.pc = "done", !.res = s.rc]]
    /\ UNCHANGED <<node_address, up, seed, events>>

\* ctx->backend.receive(ctx->backend.context, frame, timeout_ms) of context n
MockReceive(n, timeout_ms) ==
    /\ QueueReady(n)
    /\ LET r == mock_queue_receive(link, timeout_ms)
       IN /\ link' = r.q
          /\ op' = [op EXCEPT ![n] =
                      [Idle EXCEPT !.name = "queue_receive", !.pc = "done", !.res = r.rc]]
    /\ UNCHANGED <<node_address, up, seed, events>>

\* artie_can_rtacp_send(ctx, msg, wait_ack) over the queue
QueueRtSend(n, msg, wait_ack) ==
    /\ QueueReady(n)
    /\ LET s == mock_queue_send(link, RtFrame(msg))
           log == <<SendEv(RtFrame(msg), s.rc)>>
           r == QueueRtReceive(s.q, node_address[n], RtMsg0, 1, log)
       IN IF msg.data_len > ARTIE_CAN_MAX_DATA_SIZE
            THEN /\ op' = [op EXCEPT ![n] = RtOp("rt_send", "done", msg, wait_ack, 0, -1,
                                                 RtMsg0, <<>>, Echo0)]
                 /\ link' = link
          ELSE IF s.rc # 0 \/ ~RtWaitsForAck(msg, wait_ack)
            THEN /\ op' = [op EXCEPT ![n] = RtOp("rt_send", "done", msg, wait_ack, 0, s.rc,
                                                 RtMsg0, log, Echo0)]
                 /\ link' = s.q
          ELSE /\ op' = [op EXCEPT ![n] =
                           RtAfterReceive(RtOp("rt_send", "ackwait", msg, wait_ack, 1, 0,
                                               RtMsg0, log, Echo0),
                                          r.rc, r.msg, r.log)]
               /\ link' = r.q
    /\ UNCHANGED <<node_address, up, seed, events>>

\* artie_can_rtacp_receive(ctx, msg, timeout_ms) over the queue
QueueRtReceiveCall(n, timeout_ms) ==
    /\ QueueReady(n)
    /\ LET r == QueueRtReceive(link, node_address[n], RtMsg0, timeout_ms, <<>>)
       IN /\ op' = [op EXCEPT ![n] =
                      RtAfterReceive(RtOp("rt_receive", "recv", RtMsg0, FALSE, timeout_ms, 0,
                                          RtMsg0, <<>>, Echo0),
                                     r.rc, r.msg, r.log)]
          /\ link' = r.q
    /\ UNCHANGED <<node_address, up, seed, events>>

\* artie_can_rpcacp_call over the queue; the seed of the nonce is static in
\* the one process
QueueRpcCall(n, a) ==
    /\ QueueReady(n)
    /\ LET st == RpcStuffed(a.payload)
           rv == rpcacp_generate_random(seed[n])
           s == QueueSendAll(link, RpcCallFrames(node_address[n], a, st.out, rv), <<>>)
           r == mock_queue_receive(s.q, 30)
           x == RpcOnFrame(r.frame, RpcMsg0)
       IN IF RpcCallBroadcast(a.target_addr) \/ st.rc # 0
            THEN /\ op' = [op EXCEPT ![n] =
                            RpcOp("rpc_call", "done", a, 0, 0,
                                  IF RpcCallBroadcast(a.target_addr) THEN -1 ELSE st.rc,
                                  RpcMsg0, <<>>)]
                 /\ UNCHANGED <<link, seed>>
          ELSE IF RpcSingleFrame(st.out) \/ s.rc # 0
            THEN /\ op' = [op EXCEPT ![n] = RpcOp("rpc_call", "done", a, rv, 0, s.rc,
                                                  RpcMsg0, s.log)]
                 /\ link' = s.q
                 /\ seed' = [m \in Node |-> rv]
          ELSE /\ op' = [op EXCEPT ![n] =
                           IF r.rc # 0
                             THEN RpcOp("rpc_call", "done", a, rv, 30,
                                        RpcCallResult(r.rc, RpcMsg0), RpcMsg0,
                                        Append(s.log, RecvEv(NoFrame, r.rc, 30)))
                             ELSE RpcOp("rpc_call", "done", a, rv, 30,
                                        RpcCallResult(x.rc, x.msg), x.msg,
                                        Append(s.log, RecvEv(r.frame, 0, 30)))]
               /\ link' = r.q
               /\ seed' = [m \in Node |-> rv]
    /\ UNCHANGED <<node_address, up, events>>

\* artie_can_psacp_publish over the queue
QueuePsPublish(n, a) ==
    /\ QueueReady(n)
    /\ LET st == PsStuffed(a.payload)
           s == QueueSendAll(link, PsPublishFrames(node_address[n], a, st.out), <<>>)
       IN IF st.rc # 0
            THEN /\ op' = [op EXCEPT ![n] = PsOp("ps_publish", "done", a, 0, st.rc,
                                                 PsMsg0, <<>>)]
                 /\ link' = link
            ELSE /\ op' = [op EXCEPT ![n] = PsOp("ps_publish", "done", a, 0, s.rc,
                                                 PsMsg0, s.log)]
                 /\ link' = s.q
    /\ UNCHANGED <<node_address, up, seed, events>>

\* artie_can_bwacp_send_ready (ready TRUE) and artie_can_bwacp_send_data
\* over the queue
QueueBwSend(n, ready, a) ==
    /\ QueueReady(n)
    /\ LET st == IF ready THEN BwStuffed(a.payload) ELSE [rc |-> 0, out |-> a.payload]
           frames == IF ready THEN BwReadyFrames(node_address[n], a, st.out)
                              ELSE BwDataFrames(node_address[n], a, a.payload, 0, FALSE)
           s == QueueSendAll(link, frames, <<>>)
           name == IF ready THEN "bw_send_ready" ELSE "bw_send_data"
       IN IF st.rc # 0
            THEN /\ op' = [op EXCEPT ![n] = BwOp(name, "done", a, 0, st.rc, BwMsg0, <<>>)]
                 /\ link' = link
            ELSE /\ op' = [op EXCEPT ![n] = BwOp(name, "done", a, 0, s.rc, BwMsg0, s.log)]
                 /\ link' = s.q
    /\ UNCHANGED <<node_address, up, seed, events>>

NextQueue ==
    \/ \E n \in Node : \E addr \in {IF n = "A" THEN 1 ELSE 2} : MockInit(n, addr)
    \/ \E n \in Node : \E frame \in {FillFrame(link.tail)} : MockSend(n, frame)
    \/ \E n \in Node : \E t \in {0, 100} : MockReceive(n, t)

SpecQueue == InitQueue /\ [][NextQueue]_vars

\* Both contexts are initialised, with addresses 1 and 2
InitQueueCalls ==
    /\ node_address = [n \in Node |-> IF n = "A" THEN 1 ELSE 2]
    /\ link = [queue |-> [i \in 0..(MOCK_QUEUE_SIZE - 1) |-> NoFrame],
               head |-> 0, tail |-> 0, count |-> 0, pending |-> <<>>]
    /\ up = TRUE
    /\ op = [n \in Node |-> [Idle EXCEPT !.name = "init", !.pc = "done"]]
    /\ seed = [n \in Node |-> 1]
    /\ events = 0

\* The calls that send several frames are made on the empty queue and on
\* the queue with at most MaxFreeSlots free slots
NextQueueCalls ==
    \/ \E frame \in {FillFrame(link.tail)} : MockSend("A", frame)
    \/ \E t \in {0} : MockReceive("A", t)
    \/ \E n \in Node : \E wait_ack \in BOOLEAN :
         \E msg \in { RtMsg(ARTIE_CAN_RTACP_MSG, 0, node_address[n], ta, <<5>>, 1) :
                        ta \in {0, node_address[Peer(n)]} } : QueueRtSend(n, msg, wait_ack)
    \/ \E n \in Node : \E t \in {100} : QueueRtReceiveCall(n, t)
    \/ /\ link.count = 0 \/ link.count >= MOCK_QUEUE_SIZE - MaxFreeSlots
       /\ \E a \in { RpcArgs(node_address["B"], 1, TRUE, 5, Payload(len), 0, 0) :
                       len \in {2, MaxPayloadLen + 2} } : QueueRpcCall("A", a)
    \/ /\ link.count = 0 \/ link.count >= MOCK_QUEUE_SIZE - MaxFreeSlots
       /\ \E a \in { PsArgs(66, 1, FALSE, Payload(len)) : len \in {MaxPayloadLen + 2} } :
            QueuePsPublish("A", a)
    \/ /\ link.count = 0 \/ link.count >= MOCK_QUEUE_SIZE - MaxFreeSlots
       /\ \E ready \in BOOLEAN :
            \E a \in { BwArgs(node_address["B"], 1, 1, U32(0, 0), Payload(len), FALSE) :
                         len \in {MaxPayloadLen + 2} } : QueueBwSend("A", ready, a)

SpecQueueCalls == InitQueueCalls /\ [][NextQueueCalls]_vars

(***************************************************************************)
(* The claims about the RT engine.  Identifier fields are read here by     *)
(* position, as the identifier layout gives them: bits [lo+width-1 : lo].  *)
(***************************************************************************)
IdBits(can_id, lo, width) == (can_id \div (2 ^ lo)) % (2 ^ width)

IsRtFrame(f) == IdBits(f.can_id, 26, 3) = 0
RtTypeOf(f) == IdBits(f.can_id, 25, 1)
RtPriorityOf(f) == IdBits(f.can_id, 23, 2)
RtSenderOf(f) == IdBits(f.can_id, 16, 6)
RtTargetOf(f) == IdBits(f.can_id, 10, 6)

\* The frame of an RT message with the given fields
RtWire(type, priority, sender, target, data) ==
    [can_id |-> type * (2 ^ 25) + priority * (2 ^ 23) + sender * (2 ^ 16)
                + target * (2 ^ 10) + 1023,
     dlc |-> Len(data), data |-> data, extended |-> TRUE]

\* f is the echo ACK of message m: an ACK from m's target to m's sender
\* with m's data
IsEchoAckOf(f, m) ==
    /\ IsRtFrame(f)
    /\ RtTypeOf(f) = 0
    /\ RtSenderOf(f) = m.target_addr
    /\ RtTargetOf(f) = m.sender_addr
    /\ f.dlc = m.data_len
    /\ f.data = m.data

TransportFailed(log) == \E i \in 1..Len(log) : log[i].r = -1

\* C1: A's RT send of a MSG to B with wait_ack, B's RT receive running on
\* that frame while A waits, over a transport that delivers every frame and
\* holds no other RT frame for A: B's receive returns the MSG and emits the
\* ACK from B to A with the same data, and A's send returns 0.
C1_EchoAckScenario ==
    \A a \in Node :
      LET o == op[a]
          e == o.echo
          b == Peer(a)
      IN (/\ o.name = "rt_send"
          /\ o.msg.sender_addr = node_address[a]
          /\ o.msg.target_addr = node_address[b]
          /\ e.ran /\ e.clean
          /\ ~TransportFailed(o.log))
         => /\ e.rc = 0
            /\ e.msg = o.msg
            /\ e.msg.frame_type = 1
            /\ e.ack
            /\ e.ackf = RtWire(0, o.msg.priority, node_address[b], node_address[a],
                               o.msg.data)
            /\ (o.pc = "done" => o.res = 0)

C1_Witness ==
    /\ node_address["A"] = 1 /\ node_address["B"] = 2
    /\ op["A"].name = "rt_send" /\ op["A"].pc = "done" /\ op["A"].res = 0
    /\ op["A"].msg.data = <<222, 173>> /\ op["A"].msg.target_addr = 2
    /\ op["A"].echo.ran /\ op["A"].echo.clean
    /\ op["B"].name = "rt_receive" /\ op["B"].pc = "done" /\ op["B"].res = 0
    /\ op["B"].out.data = <<222, 173>>

\* A call of rt_send that waits for its ACK: a MSG, not to the broadcast
\* address, with wait_ack, of at most 8 bytes
RtWaitingSend(o) ==
    /\ o.name = "rt_send"
    /\ o.wait_ack /\ o.msg.frame_type = 1 /\ o.msg.target_addr # 0
    /\ o.msg.data_len <= 8

\* C5: an RT send that waits for its ACK returns 0 exactly when the one RT
\* frame its ACK wait received is the echo ACK (sender = msg.target_addr,
\* target = msg.sender_addr, same data); otherwise it returns an error after
\* that single attempt: frames of other families aside, nothing is received
\* after the first RT frame or the first failed receive, and the message is
\* handed to the transport only once.
C5_SingleAckAttempt ==
    \A n \in Node :
      LET o == op[n]
          rx == Recvs(o.log)
          last == rx[Len(rx)]
      IN (RtWaitingSend(o) /\ o.pc = "done")
         => /\ o.log[1] = SendEv(RtWire(1, o.msg.priority, o.msg.sender_addr,
                                        o.msg.target_addr, o.msg.data), o.log[1].r)
            /\ \A i \in 2..Len(o.log) : o.log[i].k = "send" => RtTypeOf(o.log[i].f) = 0
            /\ IF o.log[1].r # 0
                 THEN o.res = o.log[1].r /\ rx = <<>>
                 ELSE /\ rx # <<>>
                      /\ \A i \in 1..(Len(rx) - 1) : rx[i].r = 0 /\ ~IsRtFrame(rx[i].f)
                      /\ \A i \in 1..Len(rx) : rx[i].t = 1
                      /\ o.res \in {0, -1}
                      /\ o.res = 0 <=> (last.r = 0 /\ IsEchoAckOf(last.f, o.msg))

C5_Witness ==
    \E n \in Node :
      LET o == op[n]
          rx == Recvs(o.log)
      IN /\ RtWaitingSend(o) /\ o.pc = "done" /\ o.res = -1
         /\ rx # <<>>
         /\ rx[Len(rx)].r = 0
         /\ IsRtFrame(rx[Len(rx)].f) /\ RtTypeOf(rx[Len(rx)].f) = 0
         /\ RtSenderOf(rx[Len(rx)].f) = o.msg.target_addr
         /\ RtTargetOf(rx[Len(rx)].f) = o.msg.sender_addr
         /\ rx[Len(rx)].f.dlc = o.msg.data_len
         /\ rx[Len(rx)].f.data # o.msg.data

\* C6: RT receive never emits an ACK for a MSG whose target_addr is 0x00,
\* whatever address 0..63 the context was initialised with.
C6_BroadcastNeverAcked ==
    \A n \in Node :
      (/\ op[n].name = "rt_receive" /\ op[n].pc = "done" /\ op[n].res = 0
       /\ op[n].out.frame_type = 1 /\ op[n].out.target_addr = 0)
      => Sends(op[n].log) = <<>>

\* C7: RT receive hands a frame to the transport if and only if the message
\* it returns is a MSG whose target_addr is the context's node address, and
\* then exactly one: the ACK from this node to the MSG's sender with the
\* MSG's priority and data.  The message returned is the RT frame received.
C7_AckIffMsgForMe ==
    \A n \in Node :
      LET o == op[n]
          tx == Sends(o.log)
          rx == Recvs(o.log)
          f == rx[Len(rx)].f
      IN o.name = "rt_receive"
         => /\ (o.pc # "done" \/ o.res # 0) => tx = <<>>
            /\ (o.pc = "done" /\ o.res = 0)
               => /\ IsRtFrame(f)
                  /\ o.out = [frame_type |-> RtTypeOf(f), priority |-> RtPriorityOf(f),
                              sender_addr |-> RtSenderOf(f), target_addr |-> RtTargetOf(f),
                              data |-> f.data, data_len |-> f.dlc]
                  /\ tx # <<>> <=> (o.out.frame_type = 1 /\ o.out.target_addr = node_address[n])
                  /\ tx # <<>> =>
                       /\ Len(tx) = 1
                       /\ tx[1].f = RtWire(0, o.out.priority, node_address[n],
                                           o.out.sender_addr, o.out.data)

C7_Witness ==
    \E n \in Node :
      /\ op[n].name = "rt_receive" /\ op[n].pc = "done" /\ op[n].res = 0
      /\ op[n].out.frame_type = 1 /\ op[n].out.target_addr = node_address[n]
      /\ op[n].out.priority = 3
      /\ Len(Sends(op[n].log)) = 1

\* C8: an RT send of at most 8 bytes whose target_addr is 0x00, or whose
\* wait_ack is false, or whose frame_type is ACK, performs no transport
\* receive: it performs exactly one transport send and returns its result.
C8_NoAckWait ==
    \A n \in Node :
      LET o == op[n]
      IN (/\ o.name = "rt_send"
          /\ o.msg.data_len <= 8
          /\ (o.msg.target_addr = 0 \/ ~o.wait_ack \/ o.msg.frame_type = 0))
         => /\ o.pc = "done"
            /\ Len(o.log) = 1
            /\ o.log[1].k = "send"
            /\ o.log[1].f = RtWire(o.msg.frame_type, o.msg.priority, o.msg.sender_addr,
                                   o.msg.target_addr, o.msg.data)
            /\ o.res = o.log[1].r

C8_Witness ==
    \E n \in Node :
      /\ op[n].name = "rt_send" /\ op[n].pc = "done"
      /\ op[n].msg.target_addr = 0 /\ op[n].wait_ack /\ op[n].msg.frame_type = 1
      /\ op[n].res = 0 /\ Len(op[n].log) = 1


(***************************************************************************)
(* The claims about the RPC engine, stated on the frames of the wire: the  *)
(* fields of a 29-bit RPC identifier are protocol (28..26), frame type     *)
(* (25..22), priority (21..20), sender (19..14), target (13..8) and nonce  *)
(* (7..0).                                                                 *)
(***************************************************************************)
IsRpcFrame(f) == IdBits(f.can_id, 26, 3) = 2
RpcTypeOf(f) == IdBits(f.can_id, 22, 4)
RpcPriorityOf(f) == IdBits(f.can_id, 20, 2)
RpcSenderOf(f) == IdBits(f.can_id, 14, 6)
RpcTargetOf(f) == IdBits(f.can_id, 8, 6)
RpcNonceOf(f) == IdBits(f.can_id, 0, 8)

\* The frames of a log, in the order they were handed to the transport
SentFrames(log) == [i \in 1..Len(Sends(log)) |-> Sends(log)[i].f]

\* o is a call that handed frames to a transport that accepted them all
RpcCallSent(o) ==
    /\ o.name = "rpc_call"
    /\ Sends(o.log) # <<>>
    /\ ~TransportFailed(Sends(o.log))

\* stuff(payload) of the claims: the output of the byte-stuffing utility
Stuff(payload) == artie_can_byte_stuff(payload, 2048).out

\* The header byte H of a call
HeaderByte(a) == (IF a.is_synchronous THEN 128 ELSE 0) + (a.procedure_id % 128)

\* The big-endian CRC-16 bytes over H followed by the bytes s
CrcBytes(h, s) ==
    LET crc == artie_can_crc16(<<h>> \o s)
    IN <<crc \div 256, crc % 256>>

\* f belongs to the call o of node n: an RPC frame of the given type from n
\* to the call's target with the call's priority and nonce
RpcFrameOfCall(f, type, n, o) ==
    /\ IsRpcFrame(f) /\ f.extended
    /\ RpcTypeOf(f) = type
    /\ RpcPriorityOf(f) = o.a.priority
    /\ RpcSenderOf(f) = node_address[n]
    /\ RpcTargetOf(f) = o.a.target_addr
    /\ RpcNonceOf(f) = o.random_value

\* The frame the first receive of a log returned, NoFrame if there is none
FirstReceived(log) ==
    IF Recvs(log) # <<>> /\ Recvs(log)[1].r = 0 THEN Recvs(log)[1].f ELSE NoFrame

\* C2: whatever the payload length, a call whose frames the transport
\* accepted performs exactly one response receive, with a 30 ms timeout, and
\* returns 0 only when that receive yields an ACK.
C2_OneResponseReceive ==
    \A n \in Node :
      LET o == op[n]
      IN (RpcCallSent(o) /\ o.pc = "done")
         => /\ Len(Recvs(o.log)) = 1
            /\ Recvs(o.log)[1].t = 30
            /\ o.res = 0 => /\ Recvs(o.log)[1].r = 0
                            /\ IsRpcFrame(Recvs(o.log)[1].f)
                            /\ RpcTypeOf(Recvs(o.log)[1].f) = 0

\* f is a NACK answering the call o of node n: from the call's target to n
\* with the call's nonce and an error byte
IsNackOfCall(f, n, o) ==
    /\ IsRpcFrame(f) /\ RpcTypeOf(f) = 1
    /\ RpcSenderOf(f) = o.a.target_addr
    /\ RpcTargetOf(f) = node_address[n]
    /\ RpcNonceOf(f) = o.random_value
    /\ f.dlc >= 1

\* The response to a returned call: the frame its response receive
\* returned, and for a call that returned without a response receive the
\* first frame the transport holds for the caller
ResponseTo(n, o) ==
    IF Recvs(o.log) # <<>> THEN FirstReceived(o.log)
    ELSE IF up /\ link[n] # <<>> THEN Head(link[n])
    ELSE NoFrame

\* C3: if the response to a call is a NACK with error byte e, the call
\* returns -e, whatever the payload length of the call.
C3_NackPropagates ==
    \A n \in Node :
      LET o == op[n]
      IN (RpcCallSent(o) /\ o.pc = "done" /\ IsNackOfCall(ResponseTo(n, o), n, o))
         => o.res = -(ResponseTo(n, o).data[1])

\* C4: an ACK whose nonce differs from the nonce of the call never makes the
\* call return 0.
C4_OnlyOwnNonceAccepted ==
    \A n \in Node :
      LET o == op[n]
          f == FirstReceived(o.log)
      IN (/\ RpcCallSent(o) /\ o.pc = "done"
          /\ f # NoFrame /\ IsRpcFrame(f) /\ RpcTypeOf(f) = 0
          /\ RpcNonceOf(f) # o.random_value)
         => o.res # 0

\* ceil(x / 8) for x >= 0
CeilDiv8(x) == (x + 7) \div 8

\* C9: a call whose stuffed payload has L > 5 bytes emits a START_RPC frame
\* of 8 bytes [H, crc_hi, crc_lo, stuffed[0..5]] and then ceil((L-5)/8)
\* TX_DATA frames carrying stuffed[5..] in order, 8 bytes each but for a
\* shorter last one; every frame has the call's nonce, target and priority
\* and the node address as sender.
C9_MultiFrameCall ==
    \A n \in Node :
      LET o == op[n]
          s == Stuff(o.a.payload)
          L == Len(s)
          fr == SentFrames(o.log)
          K == CeilDiv8(L - 5)
      IN (RpcCallSent(o) /\ L > 5)
         => /\ Len(fr) = 1 + K
            /\ RpcFrameOfCall(fr[1], 2, n, o)
            /\ fr[1].dlc = 8
            /\ fr[1].data = <<HeaderByte(o.a)>> \o CrcBytes(HeaderByte(o.a), s)
                            \o SubSeq(s, 1, 5)
            /\ \A j \in 1..K :
                 /\ RpcFrameOfCall(fr[1 + j], 4, n, o)
                 /\ fr[1 + j].data = SubSeq(s, 5 + 8 * (j - 1) + 1, Min(5 + 8 * j, L))
                 /\ fr[1 + j].dlc = Len(fr[1 + j].data)
                 /\ fr[1 + j].dlc = IF j < K THEN 8 ELSE L - 5 - 8 * (K - 1)

\* A call of a 12-byte payload (stuffed: 14 bytes) sent a START_RPC, a full
\* TX_DATA and a TX_DATA of one byte, and returned 0 on the ACK
C9_Witness ==
    /\ op["A"].name = "rpc_call" /\ op["A"].pc = "done" /\ op["A"].res = 0
    /\ Len(op["A"].a.payload) = 12
    /\ Len(Sends(op["A"].log)) = 3
    /\ Sends(op["A"].log)[3].f.dlc = 1
    /\ Len(Recvs(op["A"].log)) = 1

\* o is a call of node n that handed exactly one frame to the transport, a
\* START_RPC frame of the call whose data is [H, crc_hi, crc_lo] followed by
\* the bytes s, the CRC covering H and s
RpcOneStartFrame(n, o, s) ==
    /\ Len(Sends(o.log)) = 1
    /\ RpcFrameOfCall(Sends(o.log)[1].f, 2, n, o)
    /\ Sends(o.log)[1].f.data = <<HeaderByte(o.a)>> \o CrcBytes(HeaderByte(o.a), s) \o s
    /\ Sends(o.log)[1].f.dlc = 3 + Len(s)

\* o is a call of node n to a node that reached the transport
RpcCallEmitted(o) == o.name = "rpc_call" /\ Sends(o.log) # <<>>

\* C10 as stated: a call of a payload of 0..3 bytes sends exactly one frame,
\* a START_RPC with data [H, crc_hi, crc_lo] ++ stuff(payload), the CRC
\* taken over [H] ++ stuff(payload), and DLC 3 + len(stuff(payload)); the
\* empty payload contributes the byte 0xFF.
C10_ShortPayloadFrame ==
    \A n \in Node :
      LET o == op[n]
      IN (RpcCallEmitted(o) /\ Len(o.a.payload) <= 3)
         => RpcOneStartFrame(n, o, Stuff(o.a.payload))

\* C10 amended: this holds for payloads of 1..3 bytes; for the empty payload
\* the one START_RPC frame carries [H, crc_hi, crc_lo] alone, the CRC taken
\* over [H], with DLC 3.
C10_ShortPayloadFrameAmended ==
    \A n \in Node :
      LET o == op[n]
      IN (RpcCallEmitted(o) /\ Len(o.a.payload) <= 3)
         => RpcOneStartFrame(n, o, IF o.a.payload = <<>> THEN <<>>
                                                           ELSE Stuff(o.a.payload))

\* A call of the empty payload sent its frame of three bytes and returned 0
C10_Witness ==
    /\ op["A"].name = "rpc_call" /\ op["A"].pc = "done" /\ op["A"].res = 0
    /\ op["A"].a.payload = <<>>
    /\ Len(Sends(op["A"].log)) = 1
    /\ Sends(op["A"].log)[1].f.dlc = 3


\* C11: a call to target_addr 0x00 returns an error, hands no frame to the
\* transport and leaves the nonce seed as it was.
C11_BroadcastCallRejected ==
    [][\A a \in RpcCalls("A") :
         (a.target_addr = 0 /\ RpcCall("A", a))
         => /\ op'["A"].pc = "done" /\ op'["A"].res < 0
            /\ Sends(op'["A"].log) = <<>>
            /\ link' = link
            /\ seed' = seed]_vars

\* A call to the broadcast address has returned -1 after an earlier call to a
\* node had moved the seed and sent its frame
C11_Witness ==
    /\ op["A"].name = "rpc_call" /\ op["A"].pc = "done"
    /\ op["A"].a.target_addr = 0 /\ op["A"].res = -1 /\ op["A"].log = <<>>
    /\ seed["A"] = 149
    /\ Len(link["B"]) = 1


(***************************************************************************)
(* The nonces of successive calls: context A makes call after call over a  *)
(* connected transport, nobody reads, so that link["B"] holds the frame of *)
(* every call that reached the transport, in order.                        *)
(***************************************************************************)
NonceCall(n, a) ==
    /\ op[n].pc \in {"idle", "done"}
    /\ Len(link[Peer(n)]) < MaxCalls
    /\ RpcCallBody(n, a)
    /\ UNCHANGED events

NextNonce ==
    \E ta \in {0, node_address["B"]} : NonceCall("A", RpcArgs(ta, 1, TRUE, 66, <<>>, 0, 0))

SpecNonce == InitRPC /\ [][NextNonce]_vars

\* C12: in any run of 100 successive calls that reach nonce generation the
\* 100 nonces are pairwise distinct.
C12_NoncesDistinct ==
    \A i, j \in 1..Len(link["B"]) :
      (i < j /\ j - i < 100)
      => RpcNonceOf(link["B"][i]) # RpcNonceOf(link["B"][j])

\* C13: every nonce that call places in an identifier is in 1..255, after
\* any number of calls from the initial seed 1.
C13_NonceNonZero ==
    /\ \A i \in 1..Len(link["B"]) :
         /\ IsRpcFrame(link["B"][i])
         /\ RpcNonceOf(link["B"][i]) \in 1..255
    /\ seed["A"] \in 1..255

\* A hundred calls have been made, and the generator has come back to the
\* nonce of the first call, after which it repeats
C13_Witness ==
    /\ Len(link["B"]) = 100
    /\ \E k \in 2..100 : RpcNonceOf(link["B"][k]) = RpcNonceOf(link["B"][1])
    /\ op["A"].name = "rpc_call" /\ op["A"].res = 0


(***************************************************************************)
(* The claims about respond, receive and wait_response of the RPC engine.  *)
(***************************************************************************)
\* f is an RPC frame of the given type from node n to target with the given
\* priority and nonce
RpcFrameIs(f, type, priority, sender, target, nonce) ==
    /\ IsRpcFrame(f) /\ f.extended
    /\ RpcTypeOf(f) = type
    /\ RpcPriorityOf(f) = priority
    /\ RpcSenderOf(f) = sender
    /\ RpcTargetOf(f) = target
    /\ RpcNonceOf(f) = nonce

\* The header byte of a response
ReturnHeaderByte(a) == 128 + (a.procedure_id % 128)

\* C14: a respond whose stuffed payload exceeds 5 bytes emits a START_RETURN
\* frame with the 3-byte header and stuffed[0..5], then RX_DATA frames with
\* the remainder in offset order, and returns 0 when the transport accepts
\* them.
C14_RespondSegments ==
    \A n \in Node :
      LET o == op[n]
          s == Stuff(o.a.payload)
          L == Len(s)
          fr == SentFrames(o.log)
          K == CeilDiv8(L - 5)
      IN (/\ o.name = "rpc_respond" /\ o.pc = "done"
          /\ L > 5 /\ ~TransportFailed(o.log))
         => /\ o.res = 0
            /\ Len(fr) = 1 + K
            /\ RpcFrameIs(fr[1], 3, o.a.priority, node_address[n], o.a.target_addr,
                          o.a.random_value)
            /\ fr[1].data = <<ReturnHeaderByte(o.a)>> \o CrcBytes(ReturnHeaderByte(o.a), s)
                            \o SubSeq(s, 1, 5)
            /\ \A j \in 1..K :
                 /\ RpcFrameIs(fr[1 + j], 5, o.a.priority, node_address[n],
                               o.a.target_addr, o.a.random_value)
                 /\ fr[1 + j].data = SubSeq(s, 5 + 8 * (j - 1) + 1, Min(5 + 8 * j, L))

\* The first n bytes of a buffer
Prefix(buf, n) == SubSeq(buf, 1, n)

\* Node r has returned from a receive that took the frame node c's call of
\* a payload of at most 3 bytes had handed to the transport
ReceivedCallOf(r, c) ==
    /\ op[c].name = "rpc_call" /\ Len(op[c].a.payload) <= 3
    /\ Len(Sends(op[c].log)) = 1 /\ Sends(op[c].log)[1].r = 0
    /\ op[r].name = "rpc_receive" /\ op[r].pc = "done"
    /\ FirstReceived(op[r].log) = Sends(op[c].log)[1].f

\* C15: when a receive takes the START_RPC frame of a call of a payload of
\* 0..3 bytes, it returns 0 with frame_type START_RPC, the caller's address
\* as sender, the call's target, priority and nonce, the call's synchronous
\* flag, the low 7 bits of its procedure_id, the CRC of the frame and a
\* payload identical to the call's.
C15_CallReceiveRoundTrip ==
    ReceivedCallOf("B", "A")
    => LET c == op["A"]
           m == op["B"].out
           f == FirstReceived(op["B"].log)
       IN /\ op["B"].res = 0
          /\ m.frame_type = 2
          /\ m.sender_addr = node_address["A"]
          /\ m.target_addr = c.a.target_addr
          /\ m.priority = c.a.priority
          /\ m.random_value = c.random_value
          /\ m.is_synchronous = c.a.is_synchronous
          /\ m.procedure_id = c.a.procedure_id % 128
          /\ m.crc16 = f.data[2] * 256 + f.data[3]
          /\ m.payload_len = Len(c.a.payload)
          /\ Prefix(m.payload, m.payload_len) = c.a.payload

\* A receive has taken the frame of a call of a 3-byte payload and returned
\* the three bytes
C15_Witness ==
    /\ ReceivedCallOf("B", "A")
    /\ Len(op["A"].a.payload) = 3
    /\ op["B"].res = 0 /\ op["B"].out.payload_len = 3

\* Node w has returned from a wait_response that took the frame node r's
\* respond of a payload of at most 3 bytes had handed to the transport
WaitedRespondOf(w, r) ==
    /\ op[r].name = "rpc_respond" /\ Len(op[r].a.payload) <= 3
    /\ Len(Sends(op[r].log)) = 1 /\ Sends(op[r].log)[1].r = 0
    /\ op[w].name = "rpc_wait_response" /\ op[w].pc = "done"
    /\ FirstReceived(op[w].log) = Sends(op[r].log)[1].f

\* The caller's buffer and length variable are as before the call
WaitLeftUnchanged(o) ==
    /\ o.response = [i \in 1..o.max_len |-> 170]
    /\ o.actual_len = 99

\* C16: a respond of a payload of 0..3 bytes emits one START_RETURN frame
\* with header byte 0x80 | (procedure_id & 0x7F) and the given nonce; a
\* wait_response that takes it with max_len >= the payload length returns 0
\* with the payload in the buffer and its length in actual_len; when the
\* frame received is not a START_RETURN, or the payload exceeds max_len, it
\* returns an error and leaves the buffer and actual_len unchanged.
C16_RespondWaitRoundTrip ==
    /\ \A n \in Node :
         LET o == op[n]
         IN (o.name = "rpc_respond" /\ Len(o.a.payload) <= 3)
            => /\ Len(Sends(o.log)) = 1
               /\ RpcFrameIs(Sends(o.log)[1].f, 3, o.a.priority, node_address[n],
                             o.a.target_addr, o.a.random_value)
               /\ Sends(o.log)[1].f.data[1] = ReturnHeaderByte(o.a)
    /\ WaitedRespondOf("A", "B")
       => LET w == op["A"]
              p == op["B"].a.payload
          IN IF w.max_len >= Len(p)
               THEN /\ w.res = 0
                    /\ Prefix(w.response, Len(p)) = p
                    /\ Len(w.response) = w.max_len
                    /\ w.actual_len = Len(p)
               ELSE w.res < 0 /\ WaitLeftUnchanged(w)
    /\ \A n \in Node :
         LET w == op[n]
             f == FirstReceived(w.log)
         IN (/\ w.name = "rpc_wait_response" /\ w.pc = "done"
             /\ f # NoFrame
             /\ ~(IsRpcFrame(f) /\ RpcTypeOf(f) = 3))
            => w.res < 0 /\ WaitLeftUnchanged(w)

\* A wait_response with a buffer of 4 bytes has taken the response of 3
\* bytes to procedure 0x42 and returned it
C16_Witness ==
    /\ WaitedRespondOf("A", "B")
    /\ op["B"].a.payload = <<1, 2, 3>>
    /\ op["A"].max_len = 4
    /\ op["A"].res = 0 /\ op["A"].actual_len = 3
    /\ op["A"].response = <<1, 2, 3, 170>>


(***************************************************************************)
(* The claims about the PS engine, stated on the frames of the wire: the   *)
(* fields of a PS identifier are protocol (28..26, 100 or 110), frame type *)
(* (25..22), priority (21..20), sender (19..14), topic (13..6), and six    *)
(* low bits that are all ones.                                             *)
(***************************************************************************)
PsTagOf(f) == IdBits(f.can_id, 26, 3)
PsTypeOf(f) == IdBits(f.can_id, 22, 4)
PsPriorityOf(f) == IdBits(f.can_id, 20, 2)
PsSenderOf(f) == IdBits(f.can_id, 14, 6)
PsTopicOf(f) == IdBits(f.can_id, 6, 8)
PsLowBitsOf(f) == IdBits(f.can_id, 0, 6)
IsPsFrame(f) == PsTagOf(f) \in {4, 6}

\* The big-endian CRC-16 bytes over the bytes s
Crc16Bytes(s) == <<artie_can_crc16(s) \div 256, artie_can_crc16(s) % 256>>

\* f is a frame of the publish o of node n
PsFrameOfPublish(f, n, o) ==
    /\ f.extended
    /\ PsTagOf(f) = (IF o.a.high_priority THEN 4 ELSE 6)
    /\ PsSenderOf(f) = node_address[n]
    /\ PsTopicOf(f) = o.a.topic
    /\ PsLowBitsOf(f) = 63

\* C17: a publish of a non-empty payload with stuffed length L hands the
\* transport one PUB frame [crc_hi, crc_lo, stuffed[0..min(6,L)]], the CRC-16
\* taken over the stuffed bytes, then, when L > 6, DATA frames of 8 bytes
\* (the last possibly shorter) with stuffed[6..] in order; every frame has
\* the topic, the node address as sender, low six bits all ones and the
\* protocol tag 100 (high_priority) or 110.
C17_PublishFrames ==
    \A n \in Node :
      LET o == op[n]
          s == Stuff(o.a.payload)
          L == Len(s)
          fr == SentFrames(o.log)
          K == IF L > 6 THEN CeilDiv8(L - 6) ELSE 0
      IN (/\ o.name = "ps_publish" /\ o.a.payload # <<>>
          /\ o.log # <<>> /\ ~TransportFailed(o.log))
         => /\ Len(fr) = 1 + K
            /\ PsTypeOf(fr[1]) = 1
            /\ fr[1].data = Crc16Bytes(s) \o SubSeq(s, 1, Min(6, L))
            /\ fr[1].dlc = Len(fr[1].data)
            /\ \A j \in 1..K :
                 /\ PsTypeOf(fr[1 + j]) = 3
                 /\ fr[1 + j].data = SubSeq(s, 6 + 8 * (j - 1) + 1, Min(6 + 8 * j, L))
                 /\ fr[1 + j].dlc = Len(fr[1 + j].data)
                 /\ fr[1 + j].dlc = IF j < K THEN 8 ELSE L - 6 - 8 * (K - 1)
            /\ \A i \in 1..Len(fr) : PsFrameOfPublish(fr[i], n, o)

\* A low-priority publish of 7 bytes on topic 255 sent its PUB frame and a
\* DATA frame of three bytes
C17_Witness ==
    /\ op["A"].name = "ps_publish" /\ op["A"].res = 0
    /\ op["A"].a = [topic |-> 255, priority |-> 3, high_priority |-> FALSE,
                    payload |-> <<1, 2, 3, 4, 5, 6, 7>>]
    /\ Len(Sends(op["A"].log)) = 2
    /\ Sends(op["A"].log)[2].f.data = <<6, 7, 255>>
    /\ PsTagOf(Sends(op["A"].log)[2].f) = 6

\* C18: a receive that takes a PS DATA frame returns 0 with the data bytes
\* of the frame copied into the payload of the message, payload_len being
\* the DLC.
C18_DataFramePassedOn ==
    \A n \in Node :
      LET o == op[n]
          f == FirstReceived(o.log)
      IN (/\ o.name = "ps_receive" /\ o.pc = "done"
          /\ f # NoFrame /\ IsPsFrame(f) /\ PsTypeOf(f) = 3)
         => /\ o.res = 0
            /\ o.out.payload_len = f.dlc
            /\ Prefix(o.out.payload, f.dlc) = f.data

\* Node r has returned from a receive that took the PUB frame of node p's
\* publish of a payload of at most 4 bytes
ReceivedPublishOf(r, p) ==
    /\ op[p].name = "ps_publish" /\ Len(op[p].a.payload) <= 4
    /\ Len(Sends(op[p].log)) = 1 /\ Sends(op[p].log)[1].r = 0
    /\ op[r].name = "ps_receive" /\ op[r].pc = "done"
    /\ FirstReceived(op[r].log) = Sends(op[p].log)[1].f

\* C19: when a receive takes the PUB frame of a publish of a payload of 0..4
\* bytes, it returns 0 with frame_type PUB, the topic, priority and band of
\* the publish, the publisher's address as sender, the CRC of the frame and
\* a payload identical to the published one.
C19_PublishReceiveRoundTrip ==
    ReceivedPublishOf("B", "A")
    => LET a == op["A"].a
           m == op["B"].out
           f == FirstReceived(op["B"].log)
       IN /\ op["B"].res = 0
          /\ m.frame_type = 1
          /\ m.topic = a.topic
          /\ m.priority = a.priority
          /\ m.high_priority = a.high_priority
          /\ m.sender_addr = node_address["A"]
          /\ m.crc16 = f.data[1] * 256 + f.data[2]
          /\ m.payload_len = Len(a.payload)
          /\ Prefix(m.payload, m.payload_len) = a.payload

\* A receive has taken the PUB frame of a low-priority publish of 4 bytes on
\* topic 255 and returned the four bytes
C19_Witness ==
    /\ ReceivedPublishOf("B", "A")
    /\ op["A"].a.topic = 255 /\ ~op["A"].a.high_priority
    /\ Len(op["A"].a.payload) = 4
    /\ op["B"].res = 0 /\ op["B"].out.payload_len = 4 /\ op["B"].out.topic = 255


(***************************************************************************)
(* The claims about the BW engine, stated on the frames of the wire: the   *)
(* fields of a BW identifier are protocol (28..26, 101), frame type        *)
(* (25..22), priority (21..20), sender (19..14), target (13..8), class     *)
(* mask (7..2), aux1 (bit 1) and aux0 (bit 0).                             *)
(***************************************************************************)
IsBwFrame(f) == IdBits(f.can_id, 26, 3) = 5
BwTypeOf(f) == IdBits(f.can_id, 22, 4)
BwPriorityOf(f) == IdBits(f.can_id, 20, 2)
BwSenderOf(f) == IdBits(f.can_id, 14, 6)
BwTargetOf(f) == IdBits(f.can_id, 8, 6)
BwClassMaskOf(f) == IdBits(f.can_id, 2, 6)
BwAux1Of(f) == IdBits(f.can_id, 1, 1)
BwAux0Of(f) == IdBits(f.can_id, 0, 1)

\* The four bytes of a 32-bit value, most significant first
BigEndian(x) == <<x.hi \div 256, x.hi % 256, x.lo \div 256, x.lo % 256>>

\* The big-endian CRC-24 bytes over the bytes s
Crc24Bytes(s) ==
    LET c == artie_can_crc24(s)
    IN <<c \div 65536, (c \div 256) % 256, c % 256>>

\* The stuffed payload of a block write: that of a non-empty payload, and
\* nothing for the empty one
BwStuff(payload) == IF payload = <<>> THEN <<>> ELSE Stuff(payload)

\* C20: send_ready emits first a READY frame with data[0..2] the big-endian
\* CRC-24 over the 4 big-endian bytes of address followed by the stuffed
\* payload, data[3..6] the address big-endian, and data[7] = stuffed[0] with
\* DLC 8 when the payload is non-empty, DLC 7 when it is empty; its
\* identifier has aux1 = interrupt and aux0 = 1.
C20_ReadyFrame ==
    \A n \in Node :
      LET o == op[n]
          s == BwStuff(o.a.payload)
          f == Sends(o.log)[1].f
      IN (o.name = "bw_send_ready" /\ Sends(o.log) # <<>>)
         => /\ o.log[1].k = "send"
            /\ IsBwFrame(f) /\ BwTypeOf(f) = 3 /\ f.extended
            /\ SubSeq(f.data, 1, 3) = Crc24Bytes(BigEndian(o.a.address) \o s)
            /\ SubSeq(f.data, 4, 7) = BigEndian(o.a.address)
            /\ IF o.a.payload # <<>>
                 THEN f.dlc = 8 /\ Len(f.data) = 8 /\ f.data[8] = s[1]
                 ELSE f.dlc = 7 /\ Len(f.data) = 7
            /\ BwAux1Of(f) = (IF o.a.flag THEN 1 ELSE 0)
            /\ BwAux0Of(f) = 1

\* A block write of the byte 0x01 to address 0xCAFEBABE has sent its READY
\* frame, whose CRC-24 is that of CA FE BA BE 01 01 FF, and a DATA frame;
\* and the peer's receive has taken the READY frame
C20_Witness ==
    /\ op["A"].name = "bw_send_ready" /\ op["A"].res = 0
    /\ op["A"].a.payload = <<1>> /\ op["A"].a.address = U32(51966, 47806)
    /\ Len(Sends(op["A"].log)) = 2
    /\ Sends(op["A"].log)[1].f.data = <<184, 104, 134, 202, 254, 186, 190, 1>>
    /\ op["B"].name = "bw_receive" /\ op["B"].pc = "done" /\ op["B"].res = 0
    /\ op["B"].out.address = U32(51966, 47806)

\* f is a DATA frame of the block write o of node n
BwDataFrameOf(f, n, o) ==
    /\ IsBwFrame(f) /\ f.extended
    /\ BwTypeOf(f) = 7
    /\ BwSenderOf(f) = node_address[n]
    /\ BwTargetOf(f) = o.a.target_addr
    /\ BwPriorityOf(f) = o.a.priority

\* The frames fr are the DATA frames of the bytes p in order: ceil(n/8) of
\* them, frame i (from 0) with bytes 8i..min(8i+7, n-1), aux0 = i mod 2 and
\* aux1 = 0
BwDataFramesOf(fr, p, n, o) ==
    /\ Len(fr) = CeilDiv8(Len(p))
    /\ \A i \in 0..(Len(fr) - 1) :
         /\ BwDataFrameOf(fr[i + 1], n, o)
         /\ fr[i + 1].data = SubSeq(p, 8 * i + 1, Min(8 * i + 8, Len(p)))
         /\ fr[i + 1].dlc = Len(fr[i + 1].data)
         /\ BwAux0Of(fr[i + 1]) = i % 2
         /\ BwAux1Of(fr[i + 1]) = 0

\* C21: over a transport that accepts every frame, a send_data call of n
\* payload bytes hands the transport exactly ceil(n/8) DATA frames in order,
\* frame i (from 0) carrying payload bytes 8i..min(8i+7, n-1) with aux0
\* (parity) = i mod 2 and aux1 (is_repeat) = 0; send_ready hands its READY
\* frame over before any DATA frame, and its DATA frames are those of
\* stuffed[1..].
C21_DataFrames ==
    \A n \in Node :
      LET o == op[n]
          fr == SentFrames(o.log)
          s == BwStuff(o.a.payload)
      IN /\ (o.name = "bw_send_data" /\ ~TransportFailed(o.log))
            => BwDataFramesOf(fr, o.a.payload, n, o)
         /\ (o.name = "bw_send_ready" /\ o.log # <<>> /\ ~TransportFailed(o.log))
            => /\ BwTypeOf(fr[1]) = 3
               /\ BwDataFramesOf(Tail(fr), SubSeq(s, 2, Len(s)), n, o)

\* A send_data call of 17 bytes has handed over two full DATA frames and a
\* third of one byte, with parities 0, 1, 0
C21_Witness ==
    /\ op["A"].name = "bw_send_data" /\ op["A"].res = 0
    /\ Len(op["A"].a.payload) = 17
    /\ Len(Sends(op["A"].log)) = 3
    /\ Sends(op["A"].log)[2].f.data = <<9, 10, 11, 12, 13, 14, 15, 16>>
    /\ Sends(op["A"].log)[3].f.data = <<17>>
    /\ BwAux0Of(Sends(op["A"].log)[2].f) = 1
    /\ BwAux0Of(Sends(op["A"].log)[3].f) = 0

\* C22: every BW frame handed to the transport by send_ready, send_data or
\* send_repeat has class mask bits 4 and 5 (identifier bits 6 and 7) zero,
\* whatever class_mask the caller passed.
C22_ReservedClassBitsZero ==
    \A n \in Node :
      LET o == op[n]
      IN o.name \in {"bw_send_ready", "bw_send_data", "bw_send_repeat"}
         => \A i \in 1..Len(o.log) :
              o.log[i].k = "send" => IdBits(o.log[i].f.can_id, 6, 2) = 0

(***************************************************************************)
(* The claims about the payload caps.                                      *)
(***************************************************************************)
\* The length of the stuffed form of n >= 1 bytes: the bytes, one marker per
\* run of up to 254 bytes, and the terminator
StuffedSize(n) == n + (n + 253) \div 254 + 1

\* o returned an error and handed no frame to the transport
Rejected(o) == o.pc = "done" /\ o.res # 0 /\ o.log = <<>>

\* C23: an RT send with data_len > 8, a PS publish whose stuffed payload
\* would exceed 2048 bytes and a BW send_ready whose stuffed payload would
\* exceed 2048 bytes return an error with no frame handed to the transport.
C23_OversizeRejected ==
    \A n \in Node :
      LET o == op[n]
      IN /\ (o.name = "rt_send" /\ o.msg.data_len > 8) => Rejected(o)
         /\ (o.name \in {"ps_publish", "bw_send_ready"}
             /\ o.a.payload # <<>> /\ StuffedSize(Len(o.a.payload)) > 2048)
            => Rejected(o)

\* A publish and a block write of 2039 bytes (stuffed: 2049) have both
\* returned -1, and nothing is in flight
C23_Witness ==
    /\ op["A"].name = "ps_publish" /\ Len(op["A"].a.payload) = 2039
    /\ op["B"].name = "bw_send_ready" /\ Len(op["B"].a.payload) = 2039
    /\ op["A"].res = -1 /\ op["B"].res = -1
    /\ up
    /\ \A n \in Node : link[n] = <<>>

\* C24: an RPC call and an RPC respond of a payload whose stuffed form
\* exceeds 1024 bytes return an error and hand no frame to the transport.
C24_RpcOversizeRejected ==
    \A n \in Node :
      LET o == op[n]
      IN (o.name \in {"rpc_call", "rpc_respond"}
          /\ o.a.payload # <<>> /\ StuffedSize(Len(o.a.payload)) > 1024)
         => Rejected(o)

(***************************************************************************)
(* The claims about the receive entry points of all families.              *)
(***************************************************************************)
ReceiveNames == {"rt_receive", "rpc_receive", "ps_receive", "bw_receive"}

\* The protocol tags of the family of a receive entry point
FamilyTags(name) ==
    CASE name = "rt_receive" -> {0}
      [] name \in {"rpc_receive", "rpc_wait_response"} -> {2}
      [] name = "ps_receive" -> {4, 6}
      [] name = "bw_receive" -> {5}

TagOf(f) == IdBits(f.can_id, 26, 3)

\* The last call of the transport's receive that o made
LastRecv(o) == Recvs(o.log)[Len(Recvs(o.log))]

\* C25: no family receive returns success with a message built from a frame
\* whose 3-bit protocol tag is not that family's tag (RT 000, RPC 010, PS
\* 100 or 110, BW 101): a receive that returned 0 took as its last frame
\* one of its family's tags, and a receive whose last frame has tag 001,
\* 011 or 111 has not returned 0.
C25_OwnTagOnly ==
    \A n \in Node :
      LET o == op[n]
      IN (o.name \in ReceiveNames /\ o.pc = "done")
         => /\ o.res = 0
               => /\ Recvs(o.log) # <<>>
                  /\ LastRecv(o).r = 0
                  /\ TagOf(LastRecv(o).f) \in FamilyTags(o.name)
            /\ (Recvs(o.log) # <<>> /\ LastRecv(o).r = 0
                /\ TagOf(LastRecv(o).f) \in {1, 3, 7})
               => o.res # 0

\* B's BW receive has taken a frame of tag 111 that has the bits of a BW
\* DATA frame below the tag, and has returned -1
C25_Witness ==
    /\ op["B"].name = "bw_receive" /\ op["B"].pc = "done" /\ op["B"].res = -1
    /\ Len(op["B"].log) = 1
    /\ op["B"].log[1].r = 0
    /\ TagOf(op["B"].log[1].f) = 7
    /\ IdBits(op["B"].log[1].f.can_id, 22, 4) = 7

\* The caller's structures are as they were before the call o
CallerUnchanged(o) ==
    CASE o.name = "rt_receive" -> o.out = RtMsg0
      [] o.name = "rpc_receive" -> o.out = RpcMsgOld
      [] o.name = "ps_receive" -> o.out = PsMsgOld
      [] o.name = "bw_receive" -> o.out = BwMsgOld
      [] o.name = "rpc_wait_response" ->
           /\ o.response = RpcBufferBefore(o.max_len)
           /\ o.actual_len = RpcActualLenBefore

\* C26: when the transport's receive returns the timeout status -2, RT
\* receive, RPC receive, PS receive, BW receive and RPC wait_response return
\* -2 and leave the caller's message structure (for wait_response: the
\* response buffer and actual_len) unchanged.
C26_TimeoutPassedOn ==
    \A n \in Node :
      LET o == op[n]
      IN (/\ o.name \in ReceiveNames \cup {"rpc_wait_response"}
          /\ Recvs(o.log) # <<>> /\ LastRecv(o).r = -2)
         => /\ o.pc = "done"
            /\ o.res = -2
            /\ CallerUnchanged(o)

\* A's RT receive has skipped a frame of another family and then returned
\* -2 on the timeout of the transport's receive
C26_Witness ==
    /\ op["A"].name = "rt_receive" /\ op["A"].pc = "done" /\ op["A"].res = -2
    /\ Len(op["A"].log) = 2
    /\ op["A"].log[1].r = 0 /\ TagOf(op["A"].log[1].f) # 0
    /\ op["A"].log[2].r = -2
    /\ op["A"].out = RtMsg0

(***************************************************************************)
(* The claim about the identifier functions.                               *)
(***************************************************************************)
\* The message structure out has the frame type, the priority and the
\* sender of the fields f
SameHeader(out, f) ==
    /\ out.frame_type = f.frame_type
    /\ out.priority = f.priority
    /\ out.sender_addr = f.sender_addr

\* C27: for each family and all in-range field values (priority 0..3,
\* addresses 0..63, nonce and topic 0..255, class mask 0..63, the family's
\* frame types), parsing the identifier built from the fields returns the
\* same fields; a built RT identifier has its low 10 bits equal to 0x3FF
\* and a built PS identifier its low 6 bits equal to 0x3F; for BW the two
\* aux bits come back as is_repeat (aux1) and parity (aux0).
C27_IdRoundTrip ==
    \A n \in Node :
      LET o == op[n]
      IN /\ o.name = "rt_id"
            => /\ SameHeader(o.out, o.f)
               /\ o.out.target_addr = o.f.target_addr
               /\ IdBits(o.can_id, 26, 3) = 0
               /\ IdBits(o.can_id, 0, 10) = 1023
         /\ o.name = "rpc_id"
            => /\ SameHeader(o.out, o.f)
               /\ o.out.target_addr = o.f.target_addr
               /\ o.out.random_value = o.f.random_value
               /\ IdBits(o.can_id, 26, 3) = 2
         /\ o.name = "ps_id"
            => /\ SameHeader(o.out, o.f)
               /\ o.out.high_priority = o.f.high_priority
               /\ o.out.topic = o.f.topic
               /\ IdBits(o.can_id, 26, 3) = (IF o.f.high_priority THEN 4 ELSE 6)
               /\ IdBits(o.can_id, 0, 6) = 63
         /\ o.name = "bw_id"
            => /\ SameHeader(o.out, o.f)
               /\ o.out.target_addr = o.f.target_addr
               /\ o.out.class_mask = o.f.class_mask
               /\ IdBits(o.can_id, 26, 3) = 5
               /\ o.out.is_repeat = o.f.bit1
               /\ o.out.parity = o.f.bit0

\* The identifier 0x14DFFF56 of a READY frame of priority 1 from node 63
\* to node 63 with class mask 21, interrupt set, has been parsed: the
\* interrupt flag is in is_repeat, and parity is clear
C27_Witness ==
    /\ op["A"].name = "bw_id"
    /\ op["A"].f = [frame_type |-> 3, priority |-> 1, sender_addr |-> 63, target_addr |-> 63,
                    class_mask |-> 21, bit1 |-> TRUE, bit0 |-> FALSE]
    /\ op["A"].can_id = 350224214
    /\ op["A"].out.is_repeat /\ ~op["A"].out.parity
    /\ op["A"].out.class_mask = 21 /\ op["A"].out.frame_type = 3

(***************************************************************************)
(* Byte stuffing and unstuffing                                            *)
(***************************************************************************)

\* C28: for every byte sequence x of 0..2047 bytes, byte_stuff of x into a
\* buffer that holds the result, followed by byte_unstuff of that result
\* into a buffer that holds x, succeeds and gives back exactly x.
C28_StuffRoundTrip ==
    \A n \in Node :
        LET o == op[n]
        IN (/\ o.name = "byte_unstuff"
            /\ o.roundtrip
            /\ Len(o.x) <= 2047
            /\ o.output_max_len >= Len(o.x))
           => /\ o.rc = 0
              /\ o.output = o.x
              /\ o.output_len = Len(o.x)

\* 2047 bytes of 0xFF stuffed and unstuffed into a buffer of 2047 bytes
C28_Witness ==
    \E n \in Node :
        /\ op[n].name = "byte_unstuff"
        /\ op[n].roundtrip
        /\ op[n].x = [i \in 1..2047 |-> 255]
        /\ op[n].output_max_len = 2047
        /\ Len(op[n].input) = 2057
        /\ op[n].rc = 0

\* The start of the k-th run (k from 0) in the stuffed form, 0-based
RunStart(k) == k * 255

\* The markers and runs of the stuffed form of x, as the text gives them
StuffedShape(x, out) ==
    LET N == Len(x)
        runs == (N + 253) \div 254
    IN /\ Len(out) = N + runs + 1
       /\ out[Len(out)] = 255
       /\ \A k \in 0..(runs - 1) :
            LET remaining == N - k * 254
                marker == IF remaining > 254 THEN 254 ELSE remaining
            IN /\ out[RunStart(k) + 1] = marker
               /\ \A j \in 1..marker : out[RunStart(k) + 1 + j] = x[k * 254 + j]

\* C29: byte_stuff of 1..254 bytes x gives [N] x [0xFF]; of the empty input
\* the single byte [0xFF], which byte_unstuff turns into the empty sequence;
\* of more than 254 bytes a marker min(remaining, 254) before each run and one
\* terminator 0xFF, N + ceil(N/254) + 1 bytes in all; and byte_stuff fails
\* exactly when that length exceeds output_max_len.
C29_StuffShape ==
    \A n \in Node :
        LET o == op[n]
            N == Len(o.x)
        IN /\ o.name = "byte_stuff"
              => /\ (o.rc # 0) <=> (StuffedSize(N) > o.output_max_len)
                 /\ o.rc \in {0, -1}
                 /\ o.rc = 0 =>
                      /\ o.output_len = StuffedSize(N)
                      /\ Len(o.output) = StuffedSize(N)
                      /\ N = 0 => o.output = <<255>>
                      /\ N \in 1..254 => o.output = <<N>> \o o.x \o <<255>>
                      /\ N > 0 => StuffedShape(o.x, o.output)
           /\ (o.name = "byte_unstuff" /\ o.input = <<255>>)
              => /\ o.rc = 0
                 /\ o.output = <<>>
                 /\ o.output_len = 0

\* 509 bytes stuffed into exactly 513: markers 254, 254, 1, and the terminator
C29_Witness ==
    \E n \in Node :
        /\ op[n].name = "byte_stuff"
        /\ Len(op[n].x) = 509
        /\ op[n].output_max_len = 513
        /\ op[n].rc = 0
        /\ op[n].output[1] = 254
        /\ op[n].output[256] = 254
        /\ op[n].output[511] = 1
        /\ op[n].output[513] = 255

\* Reading the stream from the marker at pos (1-based) with decoded bytes
\* already written: a marker 0x00 before the terminator, a run that goes
\* past the end of the stream, or more bytes than the output holds
RECURSIVE StreamFault(_, _, _, _)
StreamFault(input, pos, decoded, output_max_len) ==
    IF pos > Len(input) THEN FALSE
    ELSE LET marker == input[pos]
         IN IF marker = 255 THEN FALSE
            ELSE IF marker = 0 THEN TRUE
            ELSE IF pos + marker > Len(input) THEN TRUE
            ELSE IF decoded + marker > output_max_len THEN TRUE
            ELSE StreamFault(input, pos + marker + 1, decoded + marker, output_max_len)

\* C30: byte_unstuff returns an error whenever a marker read before the
\* terminator is 0x00, a run goes past the end of the input, or the decoded
\* bytes would exceed output_max_len; output_len is then not written.
C30_UnstuffErrors ==
    \A n \in Node :
        LET o == op[n]
        IN (/\ o.name = "byte_unstuff"
            /\ StreamFault(o.input, 1, 0, o.output_max_len))
           => /\ o.rc = -1
              /\ o.output_len = OutputLenBefore

\* A marker 0x00 after a run of two bytes that fitted the output
C30_Witness ==
    \E n \in Node :
        /\ op[n].name = "byte_unstuff"
        /\ op[n].input = <<2, 7, 8, 0, 255>>
        /\ op[n].output_max_len = 2
        /\ op[n].rc = -1
        /\ op[n].output = <<7, 8>>
        /\ op[n].output_len = OutputLenBefore

(***************************************************************************)
(* The order of the identifiers of the families                            *)
(***************************************************************************)

\* The families in the order of their identifiers; PS counts twice, once
\* for each band
IdBand(o) ==
    CASE o.name = "rt_id" -> 1
      [] o.name = "rpc_id" -> 2
      [] o.name = "ps_id" /\ o.f.high_priority -> 3
      [] o.name = "bw_id" -> 4
      [] o.name = "ps_id" /\ ~o.f.high_priority -> 5

\* The least and the greatest identifier of each band: all fields at their
\* least, and at their greatest in-range value
IdLeast ==
    <<rtacp_build_can_id(RtMsg(ARTIE_CAN_RTACP_ACK, 0, 0, 0, <<>>, 0)),
      rpcacp_build_can_id(ARTIE_CAN_RPCACP_ACK, 0, 0, 0, 0),
      psacp_build_can_id(TRUE, ARTIE_CAN_PSACP_PUB, 0, 0, 0),
      bwacp_build_can_id(ARTIE_CAN_BWACP_REPEAT, 0, 0, 0, 0, FALSE, FALSE),
      psacp_build_can_id(FALSE, ARTIE_CAN_PSACP_PUB, 0, 0, 0)>>

IdGreatest ==
    <<rtacp_build_can_id(RtMsg(ARTIE_CAN_RTACP_MSG, 3, 63, 63, <<>>, 0)),
      rpcacp_build_can_id(ARTIE_CAN_RPCACP_RX_DATA, 3, 63, 63, 255),
      psacp_build_can_id(TRUE, ARTIE_CAN_PSACP_DATA, 3, 63, 255),
      bwacp_build_can_id(ARTIE_CAN_BWACP_DATA, 3, 63, 63, 63, TRUE, TRUE),
      psacp_build_can_id(FALSE, ARTIE_CAN_PSACP_DATA, 3, 63, 255)>>

C32_OnlyAckSucceeds ==
    \A n \in Node :
      LET o == op[n]
      IN (/\ o.name = "rpc_call"
          /\ o.pc = "done"
          /\ ~RpcSingleFrame(RpcStuffed(o.a.payload).out)
          /\ Recvs(o.log) # <<>>
          /\ o.res = 0)
         => /\ Recvs(o.log)[1].r = 0
            /\ artie_can_get_protocol(Recvs(o.log)[1].f) = ARTIE_CAN_PROTOCOL_RPCACP
            /\ IdBits(Recvs(o.log)[1].f.can_id, 22, 4) = ARTIE_CAN_RPCACP_ACK

(***************************************************************************)
(* Receive of the first frame of a multi-frame message                     *)
(***************************************************************************)

\* The frame is the START_RPC frame of a call whose payload has 5 or more
\* bytes: eight data bytes, the fourth being the marker of a run of 5 or
\* more
LongStartRpc(f) ==
    /\ artie_can_get_protocol(f) = ARTIE_CAN_PROTOCOL_RPCACP
    /\ IdBits(f.can_id, 22, 4) = ARTIE_CAN_RPCACP_START_RPC
    /\ f.dlc = ARTIE_CAN_MAX_DATA_SIZE
    /\ f.data[4] \in 5..254

\* C37: when RPC receive takes the START_RPC frame of a call whose payload
\* has 5 or more bytes (or PS receive the PUB frame of a publish of 6 or
\* more bytes), the stuffed bytes of that frame are unstuffed and receive
\* returns success with the part of the payload the frame carries.
C37_FirstFrameUnstuffed ==
    \A n \in Node :
      LET o == op[n]
      IN (/\ o.name = "rpc_receive"
          /\ o.pc = "done"
          /\ Recvs(o.log) # <<>>
          /\ Recvs(o.log)[1].r = 0
          /\ LongStartRpc(Recvs(o.log)[1].f))
         => /\ o.res = 0
            /\ o.out.payload_len = 4

(***************************************************************************)
(* The timeout status                                                      *)
(***************************************************************************)

\* A transport receive of the call returned -2
TimedOut(o) == \E i \in 1..Len(o.log) : o.log[i].k = "recv" /\ o.log[i].r = -2

\* C36: a family operation returns -2 if and only if a transport receive it
\* performed returned -2; in particular a timeout of the ACK wait of RT send
\* with wait_ack set is reported as -2.
C36_MinusTwoIsTimeout ==
    \A n \in Node :
      op[n].pc = "done" => ((op[n].res = -2) <=> TimedOut(op[n]))

(***************************************************************************)
(* Frames taken during the ACK wait of RT send                             *)
(***************************************************************************)

\* C34: while RT send waits for its ACK, every frame its receive takes from
\* the transport is consumed: a frame of another family is discarded and
\* the wait goes on, an RT frame that is not the expected ACK ends send with
\* an error and reaches no caller; a MSG addressed to this node is
\* acknowledged to its sender all the same.
C34_AckWaitConsumes ==
    [][\A n \in Node :
         (/\ op[n].name = "rt_send"
          /\ op[n].pc = "ackwait"
          /\ Len(op'[n].log) > Len(op[n].log)
          /\ op'[n].log[Len(op[n].log) + 1].r = 0)
         => LET f == op'[n].log[Len(op[n].log) + 1].f
                m == rtacp_parse_frame(f).msg
                isRt == artie_can_get_protocol(f) = ARTIE_CAN_PROTOCOL_RTACP
                toMe == /\ isRt
                        /\ m.frame_type = ARTIE_CAN_RTACP_MSG
                        /\ m.target_addr = node_address[n]
                ack == RtFrame(RtMsg(ARTIE_CAN_RTACP_ACK, m.priority, node_address[n],
                                     m.sender_addr, m.data, m.data_len))
            IN /\ link[n] # <<>>
               /\ f = Head(link[n])
               /\ link'[n] = Tail(link[n])
               /\ op'[n].name = "rt_send"
               /\ ~isRt => op'[n].pc = "ackwait"
               /\ (isRt /\ ~RtAckMatches(m, op[n].msg))
                  => op'[n].pc = "done" /\ op'[n].res = -1
               /\ toMe => /\ op'[n].res = -1
                          /\ link'[Peer(n)] = Append(link[Peer(n)], ack)
                          /\ op'[n].log[Len(op'[n].log)] = SendEv(ack, 0)
               /\ ~toMe => link'[Peer(n)] = link[Peer(n)]]_vars

\* A send with wait_ack has ended with -1 after its receive took a MSG
\* addressed to this node and sent the ACK for it
C34_Witness ==
    \E n \in Node :
      /\ op[n].name = "rt_send"
      /\ op[n].pc = "done"
      /\ op[n].res = -1
      /\ Len(op[n].log) = 3
      /\ op[n].log[2].k = "recv" /\ op[n].log[2].r = 0
      /\ rtacp_parse_frame(op[n].log[2].f).msg.frame_type = ARTIE_CAN_RTACP_MSG
      /\ rtacp_parse_frame(op[n].log[2].f).msg.target_addr = node_address[n]
      /\ op[n].log[3].k = "send" /\ op[n].log[3].r = 0
      /\ link[n] = <<>>

(***************************************************************************)
(* The claims about the in-memory queue transport.                         *)
(***************************************************************************)
\* The frames of the queue from the oldest on, read from the array
QueueFrames(q) == [i \in 1..q.count |-> q.queue[(q.head + i - 1) % MOCK_QUEUE_SIZE]]

\* Claim C31: the in-memory queue is a FIFO of capacity 32: in every state
\* 0 <= count <= 32 and tail = (head + count) mod 32; a send on the full
\* queue returns an error and leaves the queue as it was, any other send is
\* accepted; a receive on the empty queue returns an error whatever its
\* timeout_ms; every other receive returns the oldest frame accepted and not
\* yet received, with its identifier, length, data and extended flag as
\* they were sent, and the frames left keep their order.
C31_QueueFifo ==
    /\ [](LET s == mock_queue_send(link, FillFrame(link.tail))
              r == mock_queue_receive(link, 0)
          IN /\ link.count \in 0..MOCK_QUEUE_SIZE
             /\ link.head \in 0..(MOCK_QUEUE_SIZE - 1)
             /\ link.tail = (link.head + link.count) % MOCK_QUEUE_SIZE
             /\ QueueFrames(link) = link.pending
             /\ IF link.count = MOCK_QUEUE_SIZE
                  THEN s.rc # 0 /\ s.q = link
                  ELSE s.rc = 0 /\ s.q.count = link.count + 1
                       /\ QueueFrames(s.q) = Append(QueueFrames(link), FillFrame(link.tail))
             /\ IF link.count = 0
                  THEN r.rc # 0 /\ r.q = link
                  ELSE r.rc = 0 /\ r.frame = Head(link.pending)
                       /\ QueueFrames(r.q) = Tail(QueueFrames(link)))
    /\ [][\A n \in Node :
            /\ op'[n] # op[n] /\ op'[n].name = "queue_send" =>
                 IF link.count = MOCK_QUEUE_SIZE
                   THEN op'[n].res # 0 /\ link' = link
                   ELSE op'[n].res = 0
                        /\ QueueFrames(link') = Append(QueueFrames(link), FillFrame(link.tail))
            /\ op'[n] # op[n] /\ op'[n].name = "queue_receive" =>
                 IF link.count = 0
                   THEN op'[n].res # 0 /\ link' = link
                   ELSE op'[n].res = 0 /\ QueueFrames(link') = Tail(QueueFrames(link))]_vars

\* A send has failed on the full queue after the head and the tail have
\* gone round the array
C31_Witness ==
    /\ op["A"].name = "queue_send" /\ op["A"].res = -1
    /\ op["B"].name = "queue_receive" /\ op["B"].res = 0
    /\ link.count = MOCK_QUEUE_SIZE
    /\ link.head = 3
    /\ link.pending[1] = FillFrame(3) /\ link.pending[MOCK_QUEUE_SIZE] = FillFrame(2)

\* Claim C38: the contexts initialised with the in-memory backend share one
\* queue: a frame a context sends on the empty queue is the frame the next
\* receive returns, to the sender and to the other context alike, and every
\* receive of either context takes the oldest frame either has sent; the
\* initialisation of a context empties the queue, so that the frames still
\* pending are never received.
C38_SharedQueue ==
    [][\A m \in Node :
         /\ op'[m] # op[m] /\ op'[m].name = "queue_send" /\ op'[m].res = 0 =>
              /\ link'.pending = Append(link.pending, FillFrame(link.tail))
              /\ link.count = 0 =>
                   \A t \in {0, 100} :
                     LET r == mock_queue_receive(link', t)
                     IN r.rc = 0 /\ r.frame = FillFrame(link.tail) /\ r.q.count = 0
         /\ op'[m] # op[m] /\ op'[m].name = "queue_receive" /\ op'[m].res = 0 =>
              /\ link.pending # <<>>
              /\ link'.pending = Tail(link.pending)
              /\ mock_queue_receive(link, 0).frame = Head(link.pending)
         /\ op[m].name = "none" /\ op'[m].name = "init" =>
              /\ link'.count = 0 /\ link'.pending = <<>>
              /\ mock_queue_receive(link', 0).rc # 0]_vars

\* B was initialised while two frames A had sent were pending; A has sent
\* one frame since and B has received it, the second frame of before is
\* still in the array and will not be received
C38_Witness ==
    /\ op["A"].name = "queue_send" /\ op["A"].res = 0
    /\ op["B"].name = "queue_receive" /\ op["B"].res = 0
    /\ link.count = 0 /\ link.head = 1 /\ link.tail = 1
    /\ link.queue[1] = FillFrame(1) /\ link.queue[2] = NoFrame

\* The place of the first RT frame in frames, 0 if there is none
FirstRt(frames) ==
    LET S == { i \in 1..Len(frames) : IsRtFrame(frames[i]) }
    IN IF S = {} THEN 0 ELSE CHOOSE i \in S : \A j \in S : i <= j

\* The frames the sends of log were accepted with, in order
Accepted(log) ==
    LET s == SelectSeq(log, LAMBDA e : e.k = "send" /\ e.r = 0)
    IN [i \in 1..Len(s) |-> s[i].f]

\* Claim C39: an RT receive over the in-memory queue returns after at most
\* k + 1 transport receives when k frames (of at most eight bytes) are
\* queued: it takes the frames of other families up to the first RT frame,
\* and returns that frame with 0, or, when no RT frame is queued, the error
\* of the receive on the queue it has emptied.  It hands at most one frame
\* to the transport (the ACK); an RT send hands over at most two, its own
\* frame and one ACK sent by the receive of its ACK wait.
C39_RtReceiveTerminates ==
    [][\A n \in Node :
         LET o == op'[n]
             k == link.count
             i == FirstRt(link.pending)
             recvs == Recvs(o.log)
             sends == Sends(o.log)
         IN /\ op[n].name # "rt_receive" /\ o.name = "rt_receive" =>
                 /\ o.pc = "done"
                 /\ Len(recvs) <= k + 1 /\ Len(sends) <= 1
                 /\ IF i = 0
                      THEN /\ Len(recvs) = k + 1 /\ sends = <<>>
                           /\ \A j \in 1..k : recvs[j].r = 0 /\ recvs[j].f = link.pending[j]
                           /\ recvs[k + 1].r = -1 /\ o.res = -1
                           /\ link'.count = 0
                      ELSE /\ Len(recvs) = i
                           /\ \A j \in 1..i : recvs[j].r = 0 /\ recvs[j].f = link.pending[j]
                           /\ o.res = 0 /\ RtFrame(o.out) = link.pending[i]
                           /\ link'.pending = SubSeq(link.pending, i + 1, k) \o Accepted(o.log)
                           /\ \A j \in 1..Len(sends) : RtTypeOf(sends[j].f) = ARTIE_CAN_RTACP_ACK
            /\ op[n].name # "rt_send" /\ o.name = "rt_send" =>
                 /\ o.pc = "done"
                 /\ Len(sends) <= 2 /\ Len(recvs) <= k + 2
                 /\ sends # <<>> /\ sends[1].f = RtFrame(o.msg)
                 /\ Len(sends) = 2 =>
                      /\ RtTypeOf(sends[2].f) = ARTIE_CAN_RTACP_ACK
                      /\ recvs # <<>> /\ sends[2].f = RtFrame(RtAckFor(node_address[n], o.out))]_vars

\* A's receive has taken two frames of other families and the MSG behind
\* them, and has sent the ACK of that MSG
C39_Witness ==
    /\ op["A"].name = "rt_receive" /\ op["A"].res = 0
    /\ Len(Recvs(op["A"].log)) = 3 /\ Len(Sends(op["A"].log)) = 1
    /\ ~IsRtFrame(op["A"].log[1].f) /\ ~IsRtFrame(op["A"].log[2].f)
    /\ IsRtFrame(op["A"].log[3].f)

\* The frames call o has to hand to the transport, context n making it
FramesOf(n, o) ==
    IF o.name = "rpc_call"
      THEN RpcCallFrames(node_address[n], o.a, RpcStuffed(o.a.payload).out, o.random_value)
    ELSE IF o.name = "ps_publish"
      THEN PsPublishFrames(node_address[n], o.a, PsStuffed(o.a.payload).out)
    ELSE IF o.name = "bw_send_ready"
      THEN BwReadyFrames(node_address[n], o.a, BwStuffed(o.a.payload).out)
    ELSE BwDataFrames(node_address[n], o.a, o.a.payload, 0, FALSE)

\* Claim C35: a call, publish, send_ready or send_data that sends several
\* frames hands them to the transport in order up to the first send that
\* fails: the call returns the result of that send, attempts no frame after
\* it, call does not receive a response, and the frames accepted before stay
\* in the transport.  Over the in-memory queue a call that needs more frames
\* than there are free slots fails in this way with the queue full, and a
\* call that needs no more succeeds in sending them all.
C35_FirstFailureEnds ==
    [][\A n \in Node :
         LET o == op'[n]
             frames == FramesOf(n, o)
             free == MOCK_QUEUE_SIZE - link.count
             sends == Sends(o.log)
             recvs == Recvs(o.log)
         IN op[n].name \in {"init", "queue_send", "queue_receive"}
            /\ o.name \in {"rpc_call", "ps_publish", "bw_send_ready", "bw_send_data"}
            /\ Len(frames) > 1 =>
              IF Len(frames) > free
                THEN /\ Len(sends) = free + 1 /\ recvs = <<>>
                     /\ \A j \in 1..free : sends[j] = SendEv(frames[j], 0)
                     /\ sends[free + 1] = SendEv(frames[free + 1], -1)
                     /\ o.res = -1
                     /\ link'.count = MOCK_QUEUE_SIZE
                     /\ link'.pending = link.pending \o SubSeq(frames, 1, free)
                ELSE /\ sends = [j \in 1..Len(frames) |-> SendEv(frames[j], 0)]
                     /\ IF o.name = "rpc_call"
                          THEN /\ Len(recvs) = 1 /\ o.log[Len(o.log)].k = "recv"
                               /\ link'.pending = Tail(link.pending \o frames)
                          ELSE /\ recvs = <<>> /\ o.res = 0
                               /\ link'.pending = link.pending \o frames]_vars

\* A call of three frames was made with two free slots: two frames were
\* accepted, the send of the third failed and ended the call, the queue is
\* full
C35_Witness ==
    /\ op["A"].name = "rpc_call" /\ op["A"].res = -1
    /\ Len(op["A"].log) = 3
    /\ op["A"].log[2].k = "send" /\ op["A"].log[2].r = 0
    /\ op["A"].log[3].k = "send" /\ op["A"].log[3].r = -1
    /\ IdBits(op["A"].log[3].f.can_id, 22, 4) = ARTIE_CAN_RPCACP_TX_DATA
    /\ link.count = MOCK_QUEUE_SIZE

\* Claim C33: when an RT receive has returned 0 with a MSG addressed to its
\* node, the transport has accepted the ACK of that MSG: the receive has
\* made a send of the ACK and that send returned 0.
C33_AckAccepted ==
    \A n \in Node :
      /\ op[n].name = "rt_receive" /\ op[n].pc = "done" /\ op[n].res = 0
      /\ op[n].out.frame_type = ARTIE_CAN_RTACP_MSG
      /\ op[n].out.target_addr = node_address[n]
      => \E i \in 1..Len(op[n].log) :
           op[n].log[i] = SendEv(RtFrame(RtAckFor(node_address[n], op[n].out)), 0)

=============================================================================
